---- MODULE Spec2Model ----
(***************************************************************************)
(* Model of fortls/parse_fortran.py: the line source (fortran_file), the   *)
(* preprocessor (preprocess_file) and the AST builder (process_file).      *)
(*                                                                         *)
(* Text representation.  A physical line is a sequence of lexical units    *)
(* (strings); a column is an index into that sequence.  Python slices      *)
(* s[a:b] are Slice(s, a, b) with 0-based a, b.  The empty line is <<>>.   *)
(* A regular expression anchored at the start of a line is a test on the   *)
(* leading units of the line.                                              *)
(***************************************************************************)
EXTENDS Integers, Sequences, FiniteSets, TLC

VARIABLES
    fs,              \* the disk: path -> [exists, lines]
    hash_order,      \* iteration order of Python's set of directory strings
    path,            \* fortran_file.path
    preproc,         \* fortran_file.preproc
    contents_split,  \* fortran_file.contents_split
    contents_pp,     \* fortran_file.contents_pp
    nLines,          \* fortran_file.nLines
    hash,            \* fortran_file.hash
    file_pp_defs,    \* fortran_file.pp_defs
    pp_defs,         \* the caller's pp_defs dict (ordered: insertion order)
    include_list,    \* the directories in the order the caller listed them
    include_dirs,    \* the caller's include_dirs set object
    pp_skips,        \* skips returned by the last preprocess
    pp_defines,      \* defines returned by the last preprocess
    include_paths,   \* include_path resolved for each honoured #include
    ast,             \* AST returned by the last process_file
    called,          \* the last operation that ran
    raised,          \* whether the last operation raised
    nEdits,          \* number of apply_change calls so far
    ret,             \* value returned by the last load_from_disk / apply_change
    thr              \* the parses running on threads: thread -> its frame

vars == <<fs, hash_order, path, preproc, contents_split, contents_pp, nLines,
          hash, file_pp_defs, pp_defs, include_list, include_dirs, pp_skips,
          pp_defines, include_paths, ast, called, raised, nEdits, ret, thr>>

----------------------------------------------------------------------------
(* Bounds of the model *)

\* longest file of the scope family
MaxScopeLines == 3
\* longest file of the DO-loop family
MaxDoLines == 4
\* longest file of the family with split lines and doc comments
MaxLoopLines == 3
\* longest file of the declaration family
MaxVarLines == 3
\* longest file of the conditional-directive family
MaxCondLines == 5
\* longest file of the macro-definition family
MaxDefLines == 4
\* longest file of the code/doc/continuation family
MaxCodeLines == 3
\* depth at which the interpreter's recursion limit is hit in nested includes
RecursionLimit == 3
\* longest file of the #ifdef family
MaxIfdefLines == 5
\* longest file of the include family
MaxIncLines == 2
\* longest initial file and number of edits of the editing specification
MaxEditLines == 2
MaxEdits == 1
\* largest column of an edit position and longest edit text
MaxCol == 2
MaxTextLen == 2
\* longest file of a thread's parse
MaxParLines == 2
\* longest file written to disk under the object
MaxLoadLines == 2

----------------------------------------------------------------------------
(* Python sequence helpers *)

Min(a, b) == IF a < b THEN a ELSE b
Max(a, b) == IF a > b THEN a ELSE b

\* s[a:b]
Slice(s, a, b) == SubSeq(s, Max(a, 0) + 1, Min(b, Len(s)))
\* s[a:]
From(s, a) == SubSeq(s, Max(a, 0) + 1, Len(s))
\* s[-1]
Last(s) == s[Len(s)]
\* s.find(one of T): 0-based index of the first unit in T, or -1
Find(s, T) ==
    IF \E k \in 1..Len(s) : s[k] \in T
    THEN (CHOOSE k \in 1..Len(s) : s[k] \in T /\ \A j \in 1..(k-1) : s[j] \notin T) - 1
    ELSE -1

RECURSIVE Flatten(_)
\* "".join(list of lines)
Flatten(ss) == IF ss = <<>> THEN <<>> ELSE Head(ss) \o Flatten(Tail(ss))

Range(s) == {s[k] : k \in 1..Len(s)}

RECURSIVE SeqsUpTo(_, _)
\* all sequences over S of length <= n
SeqsUpTo(S, n) ==
    IF n = 0 THEN {<<>>}
    ELSE LET shorter == SeqsUpTo(S, n - 1)
         IN shorter \cup {Append(s, x) : s \in {t \in shorter : Len(t) = n - 1}, x \in S}

----------------------------------------------------------------------------
(* Ordered dictionaries (Python dict keeps insertion order) *)

NoName == "<None>"

InDefs(defs, n) == \E k \in 1..Len(defs) : defs[k].name = n
DefIndex(defs, n) == CHOOSE k \in 1..Len(defs) : defs[k].name = n
DefValue(defs, n) == defs[DefIndex(defs, n)].value
\* defs[n] = v : in place when the key exists, appended otherwise
DefSet(defs, n, v) ==
    IF InDefs(defs, n)
    THEN [defs EXCEPT ![DefIndex(defs, n)].value = v]
    ELSE Append(defs, [name |-> n, value |-> v])
\* defs.pop(n, None)
DefPop(defs, n) ==
    IF InDefs(defs, n)
    THEN LET k == DefIndex(defs, n) IN SubSeq(defs, 1, k - 1) \o SubSeq(defs, k + 1, Len(defs))
    ELSE defs

----------------------------------------------------------------------------
(* Regular expressions of fortls.constants.FRegex used by the preprocessor *)

CondWords == {"#if", "#ifdef", "#ifndef", "#else", "#elif", "#endif"}
PP_REGEX_match(line) == Len(line) > 0 /\ Head(line) \in CondWords
PP_DEF_match(line) == Len(line) > 1 /\ Head(line) \in {"#define", "#undef"}
PP_INCLUDE_match(line) == Len(line) > 0 /\ Head(line) = "#include"
PP_ANY_match(line) ==
    Len(line) > 0 /\ Head(line) \in CondWords \cup {"#define", "#undef", "#include"}
\* the identifiers FRegex.WORD matches in the modelled vocabulary
MacroNames == {"A", "B", "FOO", "WHERE"}
WORD_match(t) == t \in MacroNames \cup {"True", "False"}

----------------------------------------------------------------------------
(* eval_pp_if *)

\* replace_vars: every identifier becomes its definition text, or False
RECURSIVE replace_vars(_, _)
replace_vars(text, defs) ==
    IF text = <<>> THEN <<>>
    ELSE (IF WORD_match(Head(text))
          THEN (IF InDefs(defs, Head(text)) THEN DefValue(defs, Head(text)) ELSE <<"False">>)
          ELSE <<Head(text)>>)
         \o replace_vars(Tail(text), defs)

\* Python's eval of the rewritten expression: "T", "F", or "EXC" (an exception)
PyEval(text) ==
    IF text \in {<<"1">>, <<"True">>} THEN "T"
    ELSE IF text \in {<<"0">>, <<"False">>} THEN "F"
    ELSE IF Len(text) = 2 /\ text[1] = "!" /\ <<text[2]>> \in {<<"1">>, <<"True">>} THEN "F"
    ELSE IF Len(text) = 2 /\ text[1] = "!" /\ <<text[2]>> \in {<<"0">>, <<"False">>} THEN "T"
    ELSE "EXC"

eval_pp_if(text, defs) == PyEval(replace_vars(text, defs)) = "T"

----------------------------------------------------------------------------
(* The disk *)

Dirs == {"d0", "d1", "d2"}
NoFile == [exists |-> FALSE, lines |-> <<>>]
\* os.path.join(dir, name)
JoinPath(d, n) == [dir |-> d, name |-> n]
\* os.path.isfile
isfile(p) == p \in DOMAIN fs /\ fs[p].exists
\* os.path.dirname
dirname(p) == p.dir
\* the order in which a for loop visits the set S of directory strings
SetOrder(S) == SelectSeq(hash_order, LAMBDA d : d \in S)

----------------------------------------------------------------------------
(* preprocess_file *)

\* (len(pp_stack) == 0) or (pp_stack[-1][0] < 0)
Included(pp_stack) == Len(pp_stack) = 0 \/ Last(pp_stack)[1] < 0

SetTop(pp_stack, frame) == [pp_stack EXCEPT ![Len(pp_stack)] = frame]
Pop(pp_stack) == SubSeq(pp_stack, 1, Len(pp_stack) - 1)

\* state of the loop over the lines of one file
PPInit(defs, dirs) ==
    [pp_skips |-> <<>>, pp_defines |-> <<>>, pp_stack |-> <<>>, defs_tmp |-> defs,
     output_file |-> <<>>, def_cont_name |-> NoName, include_dirs |-> dirs,
     include_paths |-> <<>>, raised |-> FALSE]

\* a line while def_cont_name is set
OnMacroCont(st, line) ==
    IF line = <<>>
    THEN [st EXCEPT !.output_file = Append(@, <<>>), !.raised = TRUE]
    ELSE LET old == DefValue(st.defs_tmp, st.def_cont_name)
         IN IF Last(line) # "\\"
            THEN [st EXCEPT !.output_file = Append(@, <<>>),
                            !.defs_tmp = DefSet(@, st.def_cont_name, old \o line),
                            !.def_cont_name = NoName]
            ELSE [st EXCEPT !.output_file = Append(@, <<>>),
                            !.defs_tmp = DefSet(@, st.def_cont_name,
                                                old \o Slice(line, 0, Len(line) - 1))]

\* #if / #ifdef / #ifndef
OnIfStart(st, i, is_path) ==
    [st EXCEPT !.pp_stack = Append(@, IF is_path THEN <<-1, -1>> ELSE <<i + 1, -1>>)]

OnElif(st, i, line) ==
    LET top == Last(st.pp_stack)
    IN IF top[1] < 0
       THEN [st EXCEPT !.pp_stack = SetTop(@, <<i + 1, top[2]>>)]
       ELSE IF eval_pp_if(From(line, 1), st.defs_tmp)
            THEN [st EXCEPT !.pp_stack = Append(SetTop(@, <<top[1], i - 1>>), <<-1, -1>>)]
            ELSE st

\* variant: the #else line itself is left out of the closed region
OnElse_ExclusiveEnd(st, i) ==
    LET top == Last(st.pp_stack)
    IN IF top[1] < 0
       THEN [st EXCEPT !.pp_stack = SetTop(@, <<i + 1, top[2]>>)]
       ELSE [st EXCEPT !.pp_stack = SetTop(@, <<top[1], i>>)]

OnElse(st, i) ==
    LET top == Last(st.pp_stack)
    IN IF top[1] < 0
       THEN [st EXCEPT !.pp_stack = SetTop(@, <<i + 1, top[2]>>)]
       ELSE [st EXCEPT !.pp_stack = SetTop(@, <<top[1], i + 1>>)]

OnEndif(st, i) ==
    LET top == Last(st.pp_stack)
    IN IF top[1] < 0
       THEN [st EXCEPT !.pp_stack = Pop(@)]
       ELSE LET closed == IF top[2] < 0 THEN <<top[1], i + 1>> ELSE top
            IN [st EXCEPT !.pp_stack = Pop(@), !.pp_skips = Append(@, closed)]

\* a line FRegex.PP_REGEX matches
OnConditional(st, i, line) ==
    LET st1 == [st EXCEPT !.output_file = Append(@, line)]
        word == Head(line)
        def_name == IF Len(line) > 1 THEN line[2] ELSE ""
    IN IF word = "#if" THEN OnIfStart(st1, i, eval_pp_if(From(line, 1), st1.defs_tmp))
       ELSE IF word = "#ifdef" THEN OnIfStart(st1, i, InDefs(st1.defs_tmp, def_name))
       ELSE IF word = "#ifndef" THEN OnIfStart(st1, i, ~InDefs(st1.defs_tmp, def_name))
       ELSE IF Len(st1.pp_stack) = 0 THEN st1
       ELSE IF word = "#elif" THEN OnElif(st1, i, line)
       ELSE IF word = "#else" THEN OnElse(st1, i)
       ELSE OnEndif(st1, i)

\* variant: a later #define overwrites an existing definition
DefineName_LastWins(st, line) ==
    LET def_name == line[2]
    IN IF Len(line) > 2
       THEN IF Last(line) = "\\"
            THEN [st EXCEPT !.defs_tmp = DefSet(@, def_name, Slice(line, 2, Len(line) - 1)),
                            !.def_cont_name = def_name]
            ELSE [st EXCEPT !.defs_tmp = DefSet(@, def_name, From(line, 2))]
       ELSE [st EXCEPT !.defs_tmp = DefSet(@, def_name, <<"True">>)]

\* defs_tmp after an honoured "#define def_name ..." line
DefineName(st, line) ==
    LET def_name == line[2]
    IN IF InDefs(st.defs_tmp, def_name) THEN st
       ELSE IF Len(line) > 2
            THEN IF Last(line) = "\\"
                 THEN [st EXCEPT !.defs_tmp = DefSet(@, def_name, Slice(line, 2, Len(line) - 1)),
                                 !.def_cont_name = def_name]
                 ELSE [st EXCEPT !.defs_tmp = DefSet(@, def_name, From(line, 2))]
            ELSE [st EXCEPT !.defs_tmp = DefSet(@, def_name, <<"True">>)]

\* variant: the directive line is not copied to output_file
OnDefine_DropLine(st, i, line) ==
    LET st1 == [st EXCEPT !.pp_defines = Append(@, i + 1)]
    IN IF Head(line) = "#define" THEN DefineName(st1, line)
       ELSE [st1 EXCEPT !.defs_tmp = DefPop(@, line[2])]

\* an honoured line FRegex.PP_DEF matches
OnDefine(st, i, line) ==
    LET st1 == [st EXCEPT !.output_file = Append(@, line), !.pp_defines = Append(@, i + 1)]
    IN IF Head(line) = "#define" THEN DefineName(st1, line)
       ELSE [st1 EXCEPT !.defs_tmp = DefPop(@, line[2])]

\* one subn per definition, in the dict's order
RECURSIVE ReplaceWord(_, _, _)
ReplaceWord(line, name, value) ==
    IF line = <<>> THEN <<>>
    ELSE (IF Head(line) = name THEN value ELSE <<Head(line)>>)
         \o ReplaceWord(Tail(line), name, value)

RECURSIVE Substitute(_, _)
Substitute(line, defs) ==
    IF defs = <<>> THEN line
    ELSE Substitute(ReplaceWord(line, Head(defs).name, Head(defs).value), Tail(defs))

\* the directory the for loop over include_dirs stops at, as a 0/1-element sequence
FindInclude(dirs, include_filename) ==
    LET found == SelectSeq(SetOrder(dirs), LAMBDA d : isfile(JoinPath(d, include_filename)))
    IN IF found = <<>> THEN <<>> ELSE <<JoinPath(found[1], include_filename)>>

RECURSIVE preprocess_file(_, _, _, _, _)
RECURSIVE PPLoop(_, _, _, _)

\* match.group(1).replace('"', "")
IncludeFilename(line) == IF Len(line) > 1 THEN line[2] ELSE ""

\* the try block of lines 1314-1331 for the resolved include_path
IncludeAt(st, include_path, depth) ==
    LET r == preprocess_file(fs[include_path].lines, include_path, st.defs_tmp,
                             st.include_dirs, depth + 1)
    IN [st EXCEPT !.include_paths = Append(@, include_path) \o r.include_paths,
                  !.include_dirs = r.include_dirs,
                  !.defs_tmp = IF r.raised THEN @ ELSE r.defs_tmp]

\* an honoured line FRegex.PP_INCLUDE matches
OnInclude(st, line, depth) ==
    LET hit == FindInclude(st.include_dirs, IncludeFilename(line))
    IN IF hit = <<>> THEN st ELSE IncludeAt(st, hit[1], depth)

\* macro substitution of the line and output_file.append(line)
Emit(st, line) == [st EXCEPT !.output_file = Append(@, Substitute(line, st.defs_tmp))]

\* the loop body reaches the include branch with a line it honours
IsIncludeStep(st, line) ==
    /\ st.def_cont_name = NoName
    /\ ~PP_REGEX_match(line)
    /\ ~(PP_DEF_match(line) /\ Included(st.pp_stack))
    /\ PP_INCLUDE_match(line) /\ Included(st.pp_stack)

\* the body of the loop for line i (0-based)
PPStep(st, i, line, depth) ==
    IF st.def_cont_name # NoName THEN OnMacroCont(st, line)
    ELSE IF PP_REGEX_match(line) THEN OnConditional(st, i, line)
    ELSE IF PP_DEF_match(line) /\ Included(st.pp_stack) THEN OnDefine(st, i, line)
    ELSE Emit(IF PP_INCLUDE_match(line) /\ Included(st.pp_stack)
              THEN OnInclude(st, line, depth) ELSE st, line)

PPLoop(st, contents, i, depth) ==
    IF i >= Len(contents) \/ st.raised THEN st
    ELSE PPLoop(PPStep(st, i, contents[i + 1], depth), contents, i + 1, depth)

\* returns output_file, pp_skips, pp_defines, defs_tmp; include_dirs is the set
\* object after the call; raised: an exception left the function
preprocess_file(contents, file_path, defs, dirs, depth) ==
    LET dirs1 == dirs \cup {dirname(file_path)}
    IN IF depth >= RecursionLimit
       THEN [PPInit(defs, dirs1) EXCEPT !.raised = TRUE]
       ELSE PPLoop(PPInit(defs, dirs1), contents, 0, depth)

----------------------------------------------------------------------------
(* fortran_file.get_code_line, free form, forward search (backward=False) *)

CommentToks == {"!", "!>", "!<", "!!"}
DocToks == {"!>", "!<", "!!"}
\* FRegex.FREE_COMMENT
FREE_COMMENT_match(line) == Len(line) > 0 /\ Head(line) \in CommentToks
\* FRegex.FREE_DOC
FREE_DOC_match(line) == Len(line) > 0 /\ Head(line) \in DocToks
\* FRegex.FREE_CONT: a leading "&"
FREE_CONT_match(line) == Len(line) > 0 /\ Head(line) = "&"

\* iAmper and iComm of a line
AmperOf(line) == Find(line, {"&"})
CommOf(line) == IF Find(line, CommentToks) < 0 THEN AmperOf(line) + 1 ELSE Find(line, CommentToks)

\* post_lines[-1] = v
SetLast(post_lines, v) == [post_lines EXCEPT ![Len(post_lines)] = v]

RECURSIVE FwdLoop(_, _, _)
\* the while loop of lines 985-1014; c is the loop's state
FwdLoop(pp, first, c) ==
    IF ~(c.iAmper >= 0 /\ c.iAmper < c.iComm) THEN c
    ELSE LET c1 == IF c.line_ind = first + 1
                   THEN [c EXCEPT !.curr_line = Slice(@, 0, c.iAmper)]
                   ELSE IF c.next_line # <<>>
                        THEN [c EXCEPT !.post_lines = SetLast(@, Slice(c.next_line, 0, c.iAmper))]
                        ELSE c
         IN IF c1.line_ind >= Len(pp)
            \* get_line returns None and FRegex.PP_ANY.match(None) raises
            THEN [c1 EXCEPT !.raised = TRUE]
            ELSE LET next_line == pp[c1.line_ind + 1]
                     c2 == [c1 EXCEPT !.line_ind = @ + 1]
                 IN IF PP_ANY_match(next_line) \/ next_line = <<>> \/ FREE_COMMENT_match(next_line)
                    THEN FwdLoop(pp, first,
                                 [c2 EXCEPT !.next_line = <<>>,
                                            !.post_lines = Append(@, <<>>)])
                    ELSE LET nl == IF FREE_CONT_match(next_line)
                                   THEN <<" ">> \o Tail(next_line) ELSE next_line
                         IN FwdLoop(pp, first,
                                    [c2 EXCEPT !.next_line = nl,
                                               !.post_lines = Append(@, nl),
                                               !.iAmper = AmperOf(nl),
                                               !.iComm = CommOf(nl)])

\* get_code_line(line_number, backward=False, pp_content=True)
get_code_line(pp, line_number) ==
    LET curr_line == pp[line_number + 1]
    IN FwdLoop(pp, line_number,
               [curr_line |-> curr_line, post_lines |-> <<>>, next_line |-> <<>>,
                line_ind |-> line_number + 1, iAmper |-> AmperOf(curr_line),
                iComm |-> CommOf(curr_line), raised |-> FALSE])

----------------------------------------------------------------------------
(* fortran_ast: the part of fortls.objects the parser drives *)

NoDoc == <<>>
\* last_obj: k > 0 is variable k, k < 0 is scope -k, 0 is no object;
\* current_scope: index into scope_list, 0 is no scope
NewAst == [variable_list |-> <<>>, pending_doc |-> NoDoc, last_obj |-> 0,
           scope_list |-> <<>>, current_scope |-> 0, end_errors |-> <<>>,
           external_objs |-> <<>>]

\* fortran_ast.add_doc
add_doc(a, doc, forward) ==
    IF forward THEN [a EXCEPT !.pending_doc = doc]
    ELSE IF a.last_obj = 0 THEN a
    ELSE IF a.last_obj < 0 THEN [a EXCEPT !.scope_list[0 - a.last_obj].doc = doc]
    ELSE [a EXCEPT !.variable_list[a.last_obj].doc = doc]

\* fortran_module / fortran_subroutine / fortran_int (file_ast, line_number, name)
fortran_scope(line_number, kind, name) ==
    [kind |-> kind, name |-> name, sline |-> line_number, eline |-> line_number,
     parent |-> 0, closed |-> FALSE, doc |-> NoDoc]

\* fortran_ast.add_scope: the new scope becomes a child of the current one
add_scope(a, new_scope) ==
    LET k == Len(a.scope_list) + 1
    IN [a EXCEPT !.scope_list = Append(@, [new_scope EXCEPT !.parent = a.current_scope,
                                                            !.doc = a.pending_doc]),
                 !.current_scope = k, !.last_obj = 0 - k, !.pending_doc = NoDoc]

\* fortran_ast.end_scope: close the current scope and return to its parent
end_scope(a, line_number) ==
    IF a.current_scope = 0 THEN a
    ELSE [a EXCEPT !.scope_list[a.current_scope].eline = line_number,
                   !.scope_list[a.current_scope].closed = TRUE,
                   !.current_scope = a.scope_list[a.current_scope].parent]

RECURSIVE close_file(_, _)
\* fortran_ast.close_file: the scopes still open at the end of the file are closed
close_file(a, line_number) ==
    IF a.current_scope = 0 THEN a ELSE close_file(end_scope(a, line_number), line_number)

\* fortran_ast.add_variable; external_objs holds indices into variable_list
add_variable(a, v) ==
    LET v1 == IF a.pending_doc # NoDoc THEN [v EXCEPT !.doc = a.pending_doc] ELSE v
    IN [a EXCEPT !.variable_list = Append(@, v1),
                 !.last_obj = Len(a.variable_list) + 1,
                 !.pending_doc = NoDoc,
                 !.external_objs = IF v.is_external
                                   THEN Append(@, Len(a.variable_list) + 1) ELSE @]

\* fortran_var(file_ast, line_number, name, desc, keywords, ...)
fortran_var(line_number, name, desc, keywords) ==
    [name |-> name, desc |-> desc, keywords |-> keywords, sline |-> line_number,
     doc |-> NoDoc,
     is_external |-> desc = "EXTERNAL" \/ \E k \in 1..Len(keywords) : keywords[k] = "EXTERNAL"]

\* fortran_var.set_external_attr
set_external_attr(v) == [v EXCEPT !.is_external = TRUE]

----------------------------------------------------------------------------
(* read_var_def *)

TypeWords == {"integer", "real", "character", "external"}
\* str.upper() on the type words and keywords
Upper(w) ==
    IF w = "integer" THEN "INTEGER" ELSE IF w = "real" THEN "REAL"
    ELSE IF w = "character" THEN "CHARACTER" ELSE IF w = "external" THEN "EXTERNAL" ELSE w
Separators == {",", " "}
\* the attribute keywords FRegex.KEYWORD_LIST matches
KeywordToks == {"external"}

RECURSIVE parse_var_keywords(_, _)
\* parse_var_keywords (lines 145-164): the leading ", keyword" items and the rest
parse_var_keywords(keywords, test_str) ==
    IF Len(test_str) >= 2 /\ test_str[1] = "," /\ test_str[2] \in KeywordToks
    THEN parse_var_keywords(Append(keywords, Upper(test_str[2])), From(test_str, 2))
    ELSE [keywords |-> keywords, test_str |-> test_str]

\* read_var_def (lines 167-223): type word, keywords and declarators of a variable
\* definition line; no declarators when keywords come without "::"
read_var_def(line) ==
    IF Len(line) < 2 \/ Head(line) \notin TypeWords
    THEN [match |-> FALSE, type_word |-> "", keywords |-> <<>>, var_names |-> <<>>]
    ELSE LET kw == parse_var_keywords(<<>>, Tail(line))
             sep == Find(kw.test_str, {"::"})
             words == IF sep >= 0 THEN From(kw.test_str, sep + 1)
                      ELSE IF Len(kw.keywords) > 0 THEN <<>> ELSE kw.test_str
         IN [match |-> TRUE, type_word |-> Upper(Head(line)), keywords |-> kw.keywords,
             var_names |-> SelectSeq(words, LAMBDA t : t \notin Separators)]

----------------------------------------------------------------------------
(* process_file: the parsing pass *)

RECURSIVE DocAhead(_, _, _)
\* the look-ahead loop of lines 1437-1441; d = [next_line_ind, next_line, doc_lines]
DocAhead(pp, n, d) ==
    IF FREE_DOC_match(d.next_line) /\ d.next_line_ind < n
    THEN DocAhead(pp, n, [next_line_ind |-> d.next_line_ind + 1,
                          next_line |-> pp[d.next_line_ind + 1],
                          doc_lines |-> Append(d.doc_lines, Tail(d.next_line))])
    ELSE d

\* a comment line (lines 1420-1453)
OnComment(ps, pp, n, line) ==
    IF ~FREE_DOC_match(line) THEN ps
    ELSE LET doc_forward == Head(line) = "!>"
             own == <<Tail(line)>>
             doc_lines0 == IF ~doc_forward /\ ps.doc_string # <<>>
                           THEN <<ps.doc_string>> \o own ELSE own
             ps1 == IF ~doc_forward /\ ps.doc_string # <<>>
                    THEN [ps EXCEPT !.doc_string = <<>>] ELSE ps
             d == IF ps1.next_line_ind < n
                  THEN LET d1 == DocAhead(pp, n,
                                   [next_line_ind |-> ps1.next_line_ind + 1,
                                    next_line |-> pp[ps1.next_line_ind + 1],
                                    doc_lines |-> doc_lines0])
                       IN [d1 EXCEPT !.next_line_ind = @ - 1]
                  ELSE [next_line_ind |-> ps1.next_line_ind, next_line |-> <<>>,
                        doc_lines |-> doc_lines0]
             line_sum == Len(Flatten(d.doc_lines))
         IN [ps1 EXCEPT !.next_line_ind = d.next_line_ind,
                        !.ast = IF line_sum > 0 THEN add_doc(@, d.doc_lines, doc_forward) ELSE @]

\* lines 1459-1468
do_skip(line_number, skips, defines) ==
    \/ \E k \in 1..Len(skips) : line_number >= skips[k][1] /\ line_number <= skips[k][2]
    \/ \E k \in 1..Len(defines) : defines[k] = line_number

\* the declarators that carry a suffix: name, "*(len)" or "(dims)", its text
Declarators ==
    [name : {"a"}, star : {TRUE}, paren : {"10"}, tok : {"a*(10)"}]
    \cup [name : {"c"}, star : {FALSE}, paren : {"3"}, tok : {"c(3)"}]
\* name_raw.find("(") > 0: the declarator has a parenthesis after its name
HasParen(var_name) == \E d \in Declarators : d.tok = var_name
Declarator(var_name) == CHOOSE d \in Declarators : d.tok = var_name
\* desc_string.find("(") >= 0: among the descriptors built here, those with a length
DescHasParen(desc) == desc \notin {Upper(w) : w \in TypeWords}

\* find_external_type (lines 625-649): EXTERNAL X after records of X; r.found is
\* the value returned, r.ast the AST with the records marked on the way
RECURSIVE find_external_type_loop(_, _, _, _)
find_external_type_loop(a, name_stripped, k, counter) ==
    IF k > Len(a.variable_list) THEN [ast |-> a, found |-> counter = 1]
    ELSE IF a.variable_list[k].name # name_stripped
    THEN find_external_type_loop(a, name_stripped, k + 1, counter)
    ELSE IF \E e \in 1..Len(a.external_objs) : a.external_objs[e] = k
    THEN [ast |-> a, found |-> FALSE]
    ELSE find_external_type_loop(
             [a EXCEPT !.variable_list[k] = set_external_attr(@),
                       !.external_objs = Append(@, k)],
             name_stripped, k + 1, counter + 1)

find_external_type(a, desc_string, name_stripped) ==
    IF desc_string # "EXTERNAL" THEN [ast |-> a, found |-> FALSE]
    ELSE find_external_type_loop(a, name_stripped, 1, 0)

\* find_external_attr (lines 652-676): a typed X after EXTERNAL-only records of X
RECURSIVE find_external_attr_loop(_, _, _, _, _)
find_external_attr_loop(a, name_stripped, new_var, e, counter) ==
    IF e > Len(a.external_objs) THEN [ast |-> a, found |-> counter = 1]
    ELSE LET k == a.external_objs[e]
         IN IF a.variable_list[k].name # name_stripped \/ a.variable_list[k].desc # "EXTERNAL"
            THEN find_external_attr_loop(a, name_stripped, new_var, e + 1, counter)
            ELSE find_external_attr_loop(
                     IF counter = 0
                     THEN [a EXCEPT !.variable_list[k] =
                               set_external_attr([@ EXCEPT !.desc = new_var.desc])]
                     ELSE a,
                     name_stripped, new_var, e + 1, counter + 1)

\* find_external (lines 679-723)
find_external(a, desc_string, name_stripped, new_var) ==
    LET t == find_external_type(a, desc_string, name_stripped)
    IN IF t.found THEN t
       ELSE IF desc_string # "EXTERNAL"
       THEN find_external_attr_loop(t.ast, name_stripped, new_var, 1, 0)
       ELSE [ast |-> t.ast, found |-> FALSE]

\* the body of the loop for one declarator, after desc_string was updated
\* (lines 1653-1691)
AddVar(a, name_stripped, desc, keywords, line_number) ==
    LET new_var == fortran_var(line_number, name_stripped, desc, keywords)
        r == find_external(a, desc, name_stripped, new_var)
    IN IF r.found THEN r.ast ELSE add_variable(r.ast, new_var)

RECURSIVE AddVars(_, _, _, _, _)
\* the loop over obj_info.var_names (lines 1632-1691); desc_string is the
\* variable of line 1621, carried from one declarator to the next
AddVars(a, names, desc_string, keywords, line_number) ==
    IF names = <<>> THEN a
    ELSE IF ~HasParen(Head(names))
    THEN AddVars(AddVar(a, Head(names), desc_string, keywords, line_number),
                 Tail(names), desc_string, keywords, line_number)
    ELSE LET d == Declarator(Head(names))
             desc1 == IF d.star /\ ~DescHasParen(desc_string)
                      THEN desc_string \o "*(" \o d.paren \o ")" ELSE desc_string
             key_tmp == IF d.star THEN keywords
                        ELSE Append(keywords, "DIMENSION(" \o d.paren \o ")")
         IN AddVars(AddVar(a, d.name, desc1, key_tmp, line_number),
                    Tail(names), desc1, keywords, line_number)

\* strip_line_label: a leading statement label
LabelToks == {"10"}
HasLabel(line) == Len(line) > 0 /\ Head(line) \in LabelToks

\* the label strip_line_label returns, "" when the line has none
LabelOf(line) == IF HasLabel(line) THEN Head(line) ELSE ""

\* FRegex.NON_DEF: an assignment, a call or a control keyword
NonDefWords == {"call", "if"}
NON_DEF_match(line) ==
    \/ Len(line) > 0 /\ Head(line) \in NonDefWords
    \/ Len(line) > 1 /\ line[2] = "="

\* read_sub_def (lines 289-311): SUBROUTINE name
read_sub_def(line) ==
    IF Len(line) >= 2 /\ line[1] = "subroutine" THEN [match |-> TRUE, name |-> line[2]]
    ELSE [match |-> FALSE, name |-> ""]

\* read_block_def (lines 314-345): BLOCK, or DO with its optional label
read_block_def(line) ==
    IF Len(line) > 0 /\ Head(line) = "block"
    THEN [match |-> TRUE, type |-> "block", label |-> ""]
    ELSE IF Len(line) > 0 /\ Head(line) = "do"
    THEN [match |-> TRUE, type |-> "do",
          label |-> IF Len(line) >= 2 /\ line[2] \in LabelToks THEN line[2] ELSE ""]
    ELSE [match |-> FALSE, type |-> "", label |-> ""]

\* read_generic_def (lines 436-469): GENERIC :: bound_name => procedure
read_generic_def(line) ==
    IF Len(line) >= 5 /\ line[1] = "generic" /\ line[2] = "::" /\ line[4] = "=>"
    THEN [match |-> TRUE, name |-> line[3]]
    ELSE [match |-> FALSE, name |-> ""]

\* read_mod_def (lines 472-498): MODULE name, MODULE PROCEDURE names, MODULE SUBROUTINE name
read_mod_def(line) ==
    IF ~(Len(line) >= 2 /\ line[1] = "module") THEN [match |-> FALSE, type |-> "", name |-> ""]
    ELSE IF line[2] = "procedure" THEN [match |-> TRUE, type |-> "int_pro", name |-> ""]
    ELSE IF read_sub_def(Tail(line)).match
         THEN [match |-> TRUE, type |-> "sub", name |-> read_sub_def(Tail(line)).name]
    ELSE [match |-> TRUE, type |-> "mod", name |-> line[2]]

\* a split at the first ";" only: the rest of the line stays one piece
SplitSemi_FirstOnly(line, limit) ==
    LET k == Find(Slice(line, 0, limit), {";"})
    IN IF k < 0 THEN <<line>>
       ELSE <<Slice(line, 0, k), From(line, k + 1)>>

RECURSIVE SplitSemi(_, _)
\* the pieces of line between the ";" found in its first limit units (lines 1489-1501)
SplitSemi(line, limit) ==
    LET k == Find(Slice(line, 0, limit), {";"})
    IN IF k < 0 THEN <<line>>
       ELSE <<Slice(line, 0, k)>> \o SplitSemi(From(line, k + 1), limit - k - 1)

\* FRegex.END_WORD and file_ast.END_SCOPE_REGEX (lines 1510-1526): a bare END, or
\* END followed by the word of the current scope, names the scope to close
end_scope_word(a, line) ==
    /\ a.current_scope # 0
    /\ Len(line) > 0 /\ Head(line) = "end"
    /\ Len(line) = 1 \/ line[2] = a.scope_list[a.current_scope].kind

\* fortran_scope.req_named_end: a contained subroutine needs END SUBROUTINE
req_named_end(a) ==
    /\ a.scope_list[a.current_scope].kind = "subroutine"
    /\ a.scope_list[a.current_scope].parent # 0

\* the END statement that names the scope to close (lines 1512-1532): a bare END
\* in a scope that requires a named end is recorded in end_errors
OnEnd(ps, line) ==
    LET a == ps.ast
        a1 == IF Len(line) = 1 /\ req_named_end(a)
              THEN [a EXCEPT !.end_errors =
                        Append(@, <<ps.line_number, a.scope_list[a.current_scope].sline>>)]
              ELSE a
    IN [ps EXCEPT !.ast = end_scope(a1, ps.line_number)]

RECURSIVE CloseLabelled(_, _)
\* the while loop of lines 1544-1548: one scope closed per label popped
CloseLabelled(ps, line_label) ==
    IF Len(ps.block_id_stack) > 0 /\ line_label = Last(ps.block_id_stack)
    THEN CloseLabelled([ps EXCEPT !.ast = end_scope(@, ps.line_number),
                                  !.block_id_stack = SubSeq(@, 1, Len(@) - 1)],
                       line_label)
    ELSE ps

\* the test of lines 1540-1542 and did_close of the loop after it
ClosesLabelled(ps, line_label) ==
    /\ ps.ast.current_scope # 0
    /\ ps.ast.scope_list[ps.ast.current_scope].kind = "do"
    /\ line_label # ""
    /\ Len(ps.block_id_stack) > 0 /\ line_label = Last(ps.block_id_stack)

\* FRegex.IMPLICIT / FRegex.CONTAINS (lines 1552-1592)
IMPLICIT_CONTAINS_match(line) == Len(line) > 0 /\ Head(line) \in {"implicit", "contains"}

\* the definition tests in the order of def_tests and the branch taken on the
\* object read (lines 1606-1906)
OnDef(ps, line_no_comment) ==
    LET var == read_var_def(line_no_comment)
        sub == read_sub_def(line_no_comment)
        gen == read_generic_def(line_no_comment)
        mod == read_mod_def(line_no_comment)
        blk == read_block_def(line_no_comment)
        n == ps.line_number
    IN IF var.match
       THEN [ps EXCEPT !.ast = AddVars(@, var.var_names, var.type_word, var.keywords, n)]
       ELSE IF sub.match
       THEN [ps EXCEPT !.ast = add_scope(@, fortran_scope(n, "subroutine", sub.name))]
       ELSE IF blk.match /\ blk.type = "block"
       THEN [ps EXCEPT !.ast = add_scope(@, fortran_scope(n, "block", "#BLOCK"))]
       ELSE IF blk.match /\ blk.type = "do"
       THEN [ps EXCEPT !.ast = add_scope(@, fortran_scope(n, "do", "#DO")),
                       !.block_id_stack = IF blk.label # "" THEN Append(@, blk.label) ELSE @]
       ELSE IF gen.match
       THEN [ps EXCEPT !.ast = end_scope(add_scope(@, fortran_scope(n, "interface", gen.name)), n)]
       ELSE IF mod.match /\ mod.type = "sub"
       THEN [ps EXCEPT !.ast = add_scope(@, fortran_scope(n, "subroutine", mod.name))]
       ELSE IF mod.match /\ mod.type = "mod"
       THEN [ps EXCEPT !.ast = add_scope(@, fortran_scope(n, "module", mod.name))]
       ELSE ps

\* strip_line_label (line 1477): the line without its statement label
StripLabel(line) == IF HasLabel(line) THEN Tail(line) ELSE line

\* the line before its trailing comment (lines 1480-1487)
NoComment(line) ==
    LET comm_ind == Find(line, CommentToks)
    IN IF comm_ind >= 0 THEN Slice(line, 0, comm_ind) ELSE line

\* the trailing comment of the line, empty when it has none (lines 1480-1487)
PostComment(line) ==
    LET comm_ind == Find(line, CommentToks)
    IN IF comm_ind >= 0 THEN From(line, comm_ind) ELSE <<>>

\* one statement: scope end, labelled end of DO loops, generic code line,
\* IMPLICIT / CONTAINS, trailing doc string, definition tests (lines 1507-1906)
OnStatement(ps, no_comment, post_comment, line_label) ==
    IF end_scope_word(ps.ast, no_comment) = TRUE THEN OnEnd(ps, no_comment)
    ELSE IF ClosesLabelled(ps, line_label) = TRUE THEN CloseLabelled(ps, line_label)
    ELSE IF NON_DEF_match(no_comment) THEN ps
    ELSE IF IMPLICIT_CONTAINS_match(no_comment) THEN ps
    ELSE OnDef(IF FREE_DOC_match(post_comment)
               THEN [ps EXCEPT !.doc_string = Tail(post_comment)] ELSE ps,
               no_comment)

\* a line split at its ";": the first piece is the statement, the others are
\* queued in semi_split (lines 1502-1506)
OnPieces(ps, pieces, line_label) ==
    OnStatement([ps EXCEPT !.semi_split = @ \o Tail(pieces)], Head(pieces), <<>>, line_label)

\* the full line after its label is stripped (lines 1478-1506)
OnLine(ps, line, line_label) ==
    IF Find(NoComment(line), {";"}) > 0
    THEN OnPieces(ps, SplitSemi(line, Len(NoComment(line))), line_label)
    ELSE OnStatement(ps, NoComment(line), PostComment(line), line_label)

\* a code line that is not skipped (lines 1469-1906); first is the line or the
\* piece of a split line, get_full says whether it came from the file
OnCode(ps, pp, first, get_full) ==
    IF ~get_full THEN OnLine(ps, StripLabel(first), LabelOf(first))
    ELSE LET full == get_code_line(pp, ps.line_ind)
         IN IF full.raised THEN [ps EXCEPT !.raised = TRUE]
            ELSE OnLine([ps EXCEPT !.next_line_ind = @ + Len(full.post_lines)],
                        StripLabel(Flatten(<<full.curr_line>> \o full.post_lines)),
                        LabelOf(Flatten(<<full.curr_line>> \o full.post_lines)))

\* one iteration of the while loop of line 1405
ParseStep(ps, pp, n, skips, defines) ==
    LET get_full == Len(ps.semi_split) = 0
        line_ind == ps.next_line_ind
        line == IF get_full THEN pp[line_ind + 1] ELSE Head(ps.semi_split)
        ps0 == IF get_full
               THEN [ps EXCEPT !.line_ind = line_ind, !.line_number = line_ind + 1,
                               !.next_line_ind = line_ind + 1]
               ELSE [ps EXCEPT !.semi_split = Tail(@)]
    IN IF line = <<>> THEN ps0
       ELSE IF FREE_COMMENT_match(line) THEN OnComment(ps0, pp, n, line)
       ELSE LET ps1 == IF ps0.doc_string # <<>>
                       THEN [ps0 EXCEPT !.ast = add_doc(@, <<ps0.doc_string>>, FALSE),
                                        !.doc_string = <<>>]
                       ELSE ps0
            IN IF do_skip(ps1.line_number, skips, defines) THEN ps1
               ELSE OnCode(ps1, pp, line, get_full)

RECURSIVE ParseLoop(_, _, _, _, _)
ParseLoop(ps, pp, n, skips, defines) ==
    IF ps.raised \/ ~(ps.next_line_ind < n \/ Len(ps.semi_split) > 0) THEN ps
    ELSE ParseLoop(ParseStep(ps, pp, n, skips, defines), pp, n, skips, defines)

ParseInit ==
    [line_ind |-> 0, next_line_ind |-> 0, line_number |-> 1, doc_string |-> <<>>,
     semi_split |-> <<>>, block_id_stack |-> <<>>, ast |-> NewAst, raised |-> FALSE]

\* fortran_file.preprocess: the fields of the file object and the caller's set after it
preprocess(f, defs, dirs) ==
    LET r == preprocess_file(f.contents_split, f.path, defs, dirs, 0)
    IN IF r.raised
       THEN [f EXCEPT !.include_dirs = r.include_dirs, !.raised = TRUE]
       ELSE [f EXCEPT !.contents_pp = r.output_file, !.pp_defs = r.defs_tmp,
                      !.pp_skips = r.pp_skips, !.pp_defines = r.pp_defines,
                      !.include_paths = r.include_paths,
                      !.include_dirs = r.include_dirs, !.raised = FALSE]

\* process_file(file_obj, pp_defs, include_dirs)
process_file(f, defs, dirs) ==
    LET f1 == IF f.preproc THEN preprocess(f, defs, dirs)
              ELSE [f EXCEPT !.pp_skips = <<>>, !.pp_defines = <<>>, !.include_paths = <<>>,
                             !.include_dirs = dirs, !.raised = FALSE]
    IN IF f1.raised THEN f1
       ELSE LET ps == ParseLoop(ParseInit, f1.contents_pp, f1.nLines, f1.pp_skips, f1.pp_defines)
            IN [f1 EXCEPT !.ast = IF ps.raised THEN ps.ast
                                  ELSE close_file(ps.ast, ps.line_number),
                          !.raised = ps.raised]

\* a fortran_file object with the given fields, before any call
FileObj(p, pre, lines, pplines, n) ==
    [path |-> p, preproc |-> pre, contents_split |-> lines, contents_pp |-> pplines,
     nLines |-> n, pp_defs |-> <<>>, pp_skips |-> <<>>, pp_defines |-> <<>>,
     include_paths |-> <<>>, include_dirs |-> {}, ast |-> NewAst, raised |-> FALSE]

----------------------------------------------------------------------------
(* fortran_file.get_code_line, free form, backward search (forward=False) *)

\* s.rfind(one of T): 0-based index of the last unit in T, or -1
RFind(s, T) ==
    IF \E k \in 1..Len(s) : s[k] \in T
    THEN (CHOOSE k \in 1..Len(s) : s[k] \in T /\ \A j \in (k+1)..Len(s) : s[j] \notin T) - 1
    ELSE -1

\* tmp_line.split("!")[0]
NoComm(line) == IF Find(line, CommentToks) < 0 THEN line ELSE Slice(line, 0, Find(line, CommentToks))

\* a line with the leading "&" FRegex.FREE_CONT matched replaced by blanks
BlankCont(line) == IF FREE_CONT_match(line) THEN <<" ">> \o Tail(line) ELSE line

RECURSIVE BackLoop(_, _, _)
\* the while loop of lines 944-962, from line_ind downwards
BackLoop(lines, line_ind, pre_lines) ==
    IF ~(line_ind > 0) THEN pre_lines
    ELSE LET tmp_no_comm == NoComm(lines[line_ind + 1])
             cont_ind == RFind(tmp_no_comm, {"&"})
         IN IF FREE_CONT_match(tmp_no_comm) /\ cont_ind = 0 THEN pre_lines
            ELSE IF cont_ind >= 0
                 THEN BackLoop(lines, line_ind - 1,
                               Append(pre_lines, Slice(BlankCont(tmp_no_comm), 0, cont_ind)))
                 ELSE pre_lines

\* pre_lines.reverse()
Reverse(s) == [k \in 1..Len(s) |-> s[Len(s) + 1 - k]]

\* get_code_line(line_number, forward=False) on contents_split: pre_lines, curr_line
get_code_line_back(lines, line_number) ==
    [pre_lines |-> Reverse(BackLoop(lines, line_number - 1, <<>>)),
     curr_line |-> BlankCont(lines[line_number + 1])]

----------------------------------------------------------------------------
(* apply_change.check_change_reparse *)

\* FRegex.END_WORD, FRegex.IMPLICIT, FRegex.CONTAINS: the leading keyword
EndImplicitContains == {"end", "implicit", "contains"}
END_IMPLICIT_CONTAINS_match(line) == Len(line) > 0 /\ Head(line) \in EndImplicitContains
\* the recognizers of def_tests other than read_var_def, by their leading keyword
DefWords == {"subroutine", "use"}
def_tests_match(line) ==
    \/ read_var_def(line).match \/ read_sub_def(line).match
    \/ read_generic_def(line).match \/ read_mod_def(line).match
    \/ Len(line) > 1 /\ Head(line) \in DefWords

check_change_reparse(f, line_number) ==
    IF line_number < 0 \/ line_number > f.nLines - 1 THEN TRUE
    ELSE LET got == get_code_line_back(f.contents_split, line_number)
             full_line == Flatten(got.pre_lines) \o got.curr_line
             line_no_comment == NoComm(full_line)
         IN IF FREE_COMMENT_match(got.curr_line) THEN FALSE
            ELSE IF HasLabel(full_line) THEN TRUE
            ELSE IF Find(full_line, {";"}) >= 0 THEN TRUE
            ELSE IF END_IMPLICIT_CONTAINS_match(line_no_comment) THEN TRUE
            ELSE IF NON_DEF_match(line_no_comment) THEN FALSE
            ELSE def_tests_match(line_no_comment)

----------------------------------------------------------------------------
(* fortran_file.load_from_disk, set_contents, apply_change *)

NoHash == [set |-> FALSE, digest |-> <<>>]
\* hashlib.md5(contents).hexdigest(): distinct contents, distinct digests
md5(lines) == [set |-> TRUE, digest |-> lines]

\* the line boundaries of str.splitlines(): "\n", and the others ("\f", "\v",
\* "\x1c".."\x1e", "\x85", "\u2028", "\u2029"), which "\f" stands for
LineBreaks == {"\n", "\f"}

RECURSIVE splitlines(_)
\* str.splitlines()
splitlines(text) ==
    IF text = <<>> THEN <<>>
    ELSE LET nl == Find(text, LineBreaks)
         IN IF nl < 0 THEN <<text>>
            ELSE <<Slice(text, 0, nl)>> \o splitlines(From(text, nl + 1))

\* text_split of apply_change (lines 839-845)
text_split_of(text) ==
    IF Len(text) = 0 THEN << <<>> >>
    ELSE IF Last(text) = "\n" THEN Append(splitlines(text), <<>>)
    ELSE splitlines(text)

\* set_contents
set_contents(f, lines) ==
    [f EXCEPT !.contents_split = lines, !.contents_pp = lines, !.nLines = Len(lines)]

RECURSIVE SpliceLoop(_, _, _, _, _, _, _, _)
\* the loop of lines 873-886 from line i (0-based) on
SpliceLoop(lines, i, new_contents, text_split, start_line, start_col, end_line, end_col) ==
    IF i >= Len(lines) THEN new_contents
    ELSE LET line == lines[i + 1]
             n1 == IF i < start_line \/ i > end_line THEN Append(new_contents, line)
                   ELSE LET n2 == IF i = start_line
                                  THEN new_contents
                                       \o <<Slice(line, 0, start_col) \o Head(text_split)>>
                                       \o Tail(text_split)
                                  ELSE new_contents
                        IN IF i = end_line
                           THEN SetLast(n2, Last(n2) \o From(line, end_col))
                           ELSE n2
         IN SpliceLoop(lines, i + 1, n1, text_split, start_line, start_col, end_line, end_col)

\* new_contents of the general path (lines 872-886)
SpliceLines(lines, text_split, start_line, start_col, end_line, end_col) ==
    SpliceLoop(lines, 0, <<>>, text_split, start_line, start_col, end_line, end_col)

\* apply_change on the fields f; change = [has_range, text, start_line, start_col,
\* end_line, end_col]
apply_change(f, change) ==
    LET text_split == text_split_of(change.text)
    IN IF ~change.has_range THEN set_contents(f, text_split)
       ELSE IF change.start_line = f.nLines
            THEN set_contents(f, f.contents_split \o text_split)
       ELSE IF change.start_line = change.end_line /\ Len(text_split) = 1
            THEN IF change.start_line >= Len(f.contents_split)
                 \* self.contents_split[start_line] raises IndexError
                 THEN [f EXCEPT !.raised = TRUE]
                 ELSE LET prev_line == f.contents_split[change.start_line + 1]
                          new_line == Slice(prev_line, 0, change.start_col) \o change.text
                                      \o From(prev_line, change.end_col)
                      IN [f EXCEPT !.contents_split[change.start_line + 1] = new_line,
                                   !.contents_pp[change.start_line + 1] = new_line]
       ELSE set_contents(f, SpliceLines(f.contents_split, text_split, change.start_line,
                                        change.start_col, change.end_line, change.end_col))

\* the value apply_change returns: whether a full reparse is needed
apply_change_returns(f, change) ==
    IF ~change.has_range THEN TRUE
    ELSE IF change.start_line = f.nLines THEN TRUE
    ELSE IF change.start_line = change.end_line /\ Len(text_split_of(change.text)) = 1
         THEN check_change_reparse(apply_change(f, change), change.start_line)
    ELSE TRUE

----------------------------------------------------------------------------
(* Input families *)

MainPath == JoinPath("d0", "main.F90")
IncName == "inc.h"

L_if0 == <<"#if", "0">>
L_if1 == <<"#if", "1">>
L_elif0 == <<"#elif", "0">>
L_elif1 == <<"#elif", "1">>
L_else == <<"#else">>
L_endif == <<"#endif">>
L_ifdefFOO == <<"#ifdef", "FOO">>
L_defA == <<"#define", "A">>
L_defAB == <<"#define", "A", "B">>
L_defA0 == <<"#define", "A", "0">>
L_defB1 == <<"#define", "B", "1">>
L_defAcont == <<"#define", "A", "1", "\\">>
L_undefA == <<"#undef", "A">>
L_useA == <<"integer", "::", "A">>
L_x == <<"integer", "::", "x">>
L_y == <<"integer", "::", "y">>
L_empty == <<>>
L_acont == <<"integer", "::", "a", ",", "&">>
L_bcont == <<"b", ",", "&">>
L_c == <<"c">>
L_docfwd == <<"!>", "d1">>
L_docmore == <<"!!", "d2">>
L_xdoc == <<"real", "::", "z", "!<", "d3">>
L_include == <<"#include", IncName>>
L_ifdefWHERE == <<"#ifdef", "WHERE">>

CondAlphabet == {L_if0, L_if1, L_elif0, L_elif1, L_else, L_endif, L_defA, L_x}
DefAlphabet == {L_defAB, L_defA0, L_defB1, L_defAcont, L_undefA, L_useA, L_empty}
IfdefAlphabet == {L_ifdefFOO, L_else, L_endif, L_x, L_y}
CodeAlphabet == {L_x, L_acont, L_bcont, L_c, L_docfwd, L_docmore, L_xdoc, L_empty}
IncAlphabet == {L_include, L_useA, L_x}

IfWords == {"#if", "#ifdef", "#ifndef"}
RECURSIVE OpenAfter(_, _)
\* number of conditionals open after the lines, or -1 when a directive has no opener
OpenAfter(lines, depth) ==
    IF lines = <<>> THEN depth
    ELSE LET l == Head(lines)
             w == IF Len(l) > 0 THEN Head(l) ELSE ""
         IN IF w \in IfWords THEN OpenAfter(Tail(lines), depth + 1)
            ELSE IF w \in {"#elif", "#else", "#endif"} /\ depth = 0 THEN -1
            ELSE IF w = "#endif" THEN OpenAfter(Tail(lines), depth - 1)
            ELSE OpenAfter(Tail(lines), depth)
\* every #if/#ifdef/#ifndef is closed by an #endif
Balanced(lines) == OpenAfter(lines, 0) = 0

CondFiles == {f \in SeqsUpTo(CondAlphabet, MaxCondLines) : Balanced(f)}
DefFiles == SeqsUpTo(DefAlphabet, MaxDefLines)
IfdefFiles == SeqsUpTo(IfdefAlphabet, MaxIfdefLines)
CodeFiles == SeqsUpTo(CodeAlphabet, MaxCodeLines)
IncFiles == SeqsUpTo(IncAlphabet, MaxIncLines)

Seeds == {<<>>, <<[name |-> "A", value |-> <<"1">>]>>,
          <<[name |-> "B", value |-> <<"0">>], [name |-> "A", value |-> <<"B">>]>>}

\* a disk holding the main file and, in each directory of S, an include file
\* that records the directory it was read from
Disk(main, S) ==
    [p \in {MainPath} \cup {JoinPath(d, IncName) : d \in Dirs} |->
        IF p = MainPath THEN [exists |-> TRUE, lines |-> main]
        ELSE IF p.dir \in S
             THEN [exists |-> TRUE, lines |-> << <<"#define", "WHERE", p.dir>> >>]
             ELSE NoFile]

DefaultOrder == <<"d0", "d1", "d2">>
Perms(S) == {s \in [1..Cardinality(S) -> S] : \A i, j \in 1..Cardinality(S) : i # j => s[i] # s[j]}

----------------------------------------------------------------------------
(* The state machine: one fortran_file object and its caller *)

\* the file object's fields and the results of the last call, as one record
CurFile ==
    [path |-> path, preproc |-> preproc, contents_split |-> contents_split,
     contents_pp |-> contents_pp, nLines |-> nLines, pp_defs |-> file_pp_defs,
     pp_skips |-> pp_skips, pp_defines |-> pp_defines, include_paths |-> include_paths,
     include_dirs |-> include_dirs, ast |-> ast, raised |-> raised]

\* no call has returned a value yet
NoRet == [op |-> "none"]
\* (error string or None, changed or None) of load_from_disk
LoadRet(err, changed) == [op |-> "load_from_disk", err |-> err, changed |-> changed]

\* the change applied and the value apply_change returned for it
ApplyRet(change, reparse) == [op |-> "apply_change", change |-> change, reparse |-> reparse]

\* the state after fortran_file(path) and the caller's arguments
InitObject(disk, pre, seeds, list, order) ==
    /\ fs = disk
    /\ hash_order = order
    /\ path = MainPath
    /\ preproc = pre
    /\ contents_split = <<>>
    /\ contents_pp = <<>>
    /\ nLines = 0
    /\ hash = NoHash
    /\ file_pp_defs = <<>>
    /\ pp_defs = seeds
    /\ include_list = list
    /\ include_dirs = Range(list)
    /\ pp_skips = <<>>
    /\ pp_defines = <<>>
    /\ include_paths = <<>>
    /\ ast = NewAst
    /\ called = "init"
    /\ raised = FALSE
    /\ nEdits = 0
    /\ ret = NoRet
    /\ thr = <<>>

InitFile(main, pre, seeds, S, list, order) == InitObject(Disk(main, S), pre, seeds, list, order)

\* what a call leaves in the variables
Store(f, op) ==
    /\ contents_split' = f.contents_split
    /\ contents_pp' = f.contents_pp
    /\ nLines' = f.nLines
    /\ file_pp_defs' = f.pp_defs
    /\ pp_skips' = f.pp_skips
    /\ pp_defines' = f.pp_defines
    /\ include_paths' = f.include_paths
    /\ include_dirs' = f.include_dirs
    /\ ast' = f.ast
    /\ raised' = f.raised
    /\ called' = op

\* variant: the stored hash is not consulted, every successful read reloads
load_from_disk_NoHashTest ==
    /\ IF ~isfile(path)
       THEN /\ ret' = LoadRet("Could not read/decode file", "None")
            /\ UNCHANGED <<contents_split, contents_pp, nLines, hash>>
       ELSE /\ ret' = LoadRet("None", "True")
            /\ hash' = md5(fs[path].lines)
            /\ contents_split' = fs[path].lines
            /\ contents_pp' = fs[path].lines
            /\ nLines' = Len(fs[path].lines)
    /\ called' = "load_from_disk"
    /\ raised' = FALSE
    /\ UNCHANGED <<fs, hash_order, path, preproc, file_pp_defs, pp_defs, include_list,
                   include_dirs, pp_skips, pp_defines, include_paths, ast, nEdits, thr>>

\* fortran_file.load_from_disk
load_from_disk ==
    /\ IF ~isfile(path)
       THEN /\ ret' = LoadRet("Could not read/decode file", "None")
            /\ UNCHANGED <<contents_split, contents_pp, nLines, hash>>
       ELSE IF md5(fs[path].lines) = hash
       THEN /\ ret' = LoadRet("None", "False")
            /\ UNCHANGED <<contents_split, contents_pp, nLines, hash>>
       ELSE /\ ret' = LoadRet("None", "True")
            /\ hash' = md5(fs[path].lines)
            /\ contents_split' = fs[path].lines
            /\ contents_pp' = fs[path].lines
            /\ nLines' = Len(fs[path].lines)
    /\ called' = "load_from_disk"
    /\ raised' = FALSE
    /\ UNCHANGED <<fs, hash_order, path, preproc, file_pp_defs, pp_defs, include_list,
                   include_dirs, pp_skips, pp_defines, include_paths, ast, nEdits, thr>>

\* file_obj.preprocess(pp_defs, include_dirs)
Preprocess ==
    /\ Store(preprocess([CurFile EXCEPT !.raised = FALSE], pp_defs, include_dirs), "preprocess")
    /\ ret' = NoRet
    /\ UNCHANGED <<fs, hash_order, path, preproc, hash, pp_defs, include_list, nEdits, thr>>

\* process_file(file_obj, pp_defs, include_dirs)
ProcessFile ==
    /\ Store(process_file([CurFile EXCEPT !.raised = FALSE, !.ast = NewAst],
                          pp_defs, include_dirs), "process_file")
    /\ ret' = NoRet
    /\ UNCHANGED <<fs, hash_order, path, preproc, hash, pp_defs, include_list, nEdits, thr>>

EditUnits == {"x", "\\", "\n", "\f"}
Changes ==
    [has_range : BOOLEAN, text : SeqsUpTo(EditUnits, MaxTextLen),
     start_line : 0..(nLines + 1), start_col : 0..MaxCol,
     end_line : 0..(nLines + 1), end_col : 0..MaxCol]

\* file_obj.apply_change(change)
ApplyChange ==
    /\ nEdits < MaxEdits
    /\ \E change \in Changes :
          /\ change.start_line <= change.end_line
          /\ ~change.has_range =>
                change.start_line = 0 /\ change.end_line = 0
                /\ change.start_col = 0 /\ change.end_col = 0
          /\ Store(apply_change([CurFile EXCEPT !.raised = FALSE], change), "apply_change")
          /\ ret' = IF apply_change([CurFile EXCEPT !.raised = FALSE], change).raised
                    THEN NoRet
                    ELSE ApplyRet(change,
                                  apply_change_returns([CurFile EXCEPT !.raised = FALSE], change))
    /\ hash' = NoHash
    /\ nEdits' = nEdits + 1
    /\ UNCHANGED <<fs, hash_order, path, preproc, pp_defs, include_list, thr>>

InitCond == \E main \in CondFiles : InitFile(main, TRUE, <<>>, {}, <<>>, DefaultOrder)
InitDef == \E main \in DefFiles, seeds \in Seeds :
               InitFile(main, TRUE, seeds, {}, <<>>, DefaultOrder)
InitIfdef == \E main \in IfdefFiles :
               InitFile(main, TRUE, <<>>, {}, <<>>, DefaultOrder)
InitCode == \E main \in CodeFiles, pre \in BOOLEAN :
               InitFile(main, pre, <<>>, {}, <<>>, DefaultOrder)
InitInc == \E main \in IncFiles, S \in SUBSET Dirs, order \in Perms(Dirs),
              list \in {<<>>, <<"d1">>, <<"d1", "d2">>, <<"d2", "d1">>} :
               InitFile(main, TRUE, <<>>, S, list, order)

Init == InitCond \/ InitDef \/ InitIfdef \/ InitCode \/ InitInc

Next == load_from_disk \/ Preprocess \/ ProcessFile

Spec == Init /\ [][Next]_vars

EditAlphabet == {L_if0, L_endif, L_defAcont, L_include, L_x}
InitEdit == \E main \in SeqsUpTo(EditAlphabet, MaxEditLines) :
               InitFile(main, TRUE, <<>>, {"d0"}, <<>>, DefaultOrder)

NextEdit == load_from_disk \/ ApplyChange \/ Preprocess

SpecEdit == InitEdit /\ [][NextEdit]_vars

----------------------------------------------------------------------------
(* Files that open and close scopes *)

L_mod == <<"module", "m">>
L_sub == <<"subroutine", "s">>
L_modsub == <<"module", "m", ";", "subroutine", "s">>
L_gen == <<"generic", "::", "g", "=>", "s">>
L_end == <<"end">>
L_endsub == <<"end", "subroutine">>
L_endend == <<"end", ";", "end">>
ScopeAlphabet == {L_mod, L_sub, L_modsub, L_gen, L_end, L_endsub, L_endend, L_x}

InitScope == \E main \in SeqsUpTo(ScopeAlphabet, MaxScopeLines), pre \in BOOLEAN :
                InitFile(main, pre, <<>>, {}, <<>>, DefaultOrder)

SpecScope == InitScope /\ [][Next]_vars

----------------------------------------------------------------------------
(* Files of declarations: EXTERNAL statements and declarators with suffixes *)

L_rx == <<"real", "::", "x">>
L_extx == <<"external", "x">>
L_rextx == <<"real", ",", "external", "::", "x">>
L_chab == <<"character", "::", "a*(10)", ",", "b">>
L_chba == <<"character", "::", "b", ",", "a*(10)">>
L_chcb == <<"character", "::", "c(3)", ",", "b">>
VarAlphabet == {L_rx, L_x, L_extx, L_rextx, L_y, L_chab, L_chba, L_chcb}

InitVar == \E main \in SeqsUpTo(VarAlphabet, MaxVarLines) :
              InitFile(main, FALSE, <<>>, {}, <<>>, DefaultOrder)

SpecVar == InitVar /\ [][Next]_vars

----------------------------------------------------------------------------
(* Files with ";"-split lines, doc comments and continuations *)

L_three == <<"module", "m", ";", "subroutine", "s", ";", "end">>
L_semidoc == <<"integer", "::", "y", ";", "!!", "d2">>
LoopAlphabet == {L_three, L_modsub, L_endend, L_semidoc, L_docfwd, L_docmore,
                 L_x, L_acont, L_c, L_empty}

InitLoop == \E main \in SeqsUpTo(LoopAlphabet, MaxLoopLines), pre \in BOOLEAN :
               InitFile(main, pre, <<>>, {}, <<>>, DefaultOrder)

SpecLoop == InitLoop /\ [][Next]_vars

----------------------------------------------------------------------------
(* Files with DO loops closed by labelled lines *)

L_do10 == <<"do", "10", "i">>
L_do == <<"do", "i">>
L_block == <<"block">>
L_10 == <<"10", "continue">>
L_enddo == <<"end", "do">>
L_endblock == <<"end", "block">>
DoAlphabet == {L_do10, L_do, L_block, L_10, L_enddo, L_endblock}

InitDo == \E main \in SeqsUpTo(DoAlphabet, MaxDoLines) :
             InitFile(main, FALSE, <<>>, {}, <<>>, DefaultOrder)

SpecDo == InitDo /\ [][Next]_vars

----------------------------------------------------------------------------
(* Edits of files whose lines the reparse heuristic tells apart *)

L_comment == <<"!", "c">>
L_label == <<"10", "call", "x">>
L_semi == <<"call", "x", ";", "end">>
L_call == <<"call", "x">>
L_word == <<"x">>
ReparseAlphabet == {L_comment, L_label, L_semi, L_end, L_call, L_word, L_x, L_acont, L_bcont}

InitReparse == \E main \in SeqsUpTo(ReparseAlphabet, MaxEditLines) :
                  InitFile(main, FALSE, <<>>, {}, <<>>, DefaultOrder)

SpecReparse == InitReparse /\ [][NextEdit]_vars

----------------------------------------------------------------------------
(* The file on disk changing under the file object *)

LoadAlphabet == {L_x, L_y}
LoadFiles == SeqsUpTo(LoadAlphabet, MaxLoadLines)

\* another program rewrites or removes the file
WriteDisk ==
    /\ \E new \in {[exists |-> TRUE, lines |-> c] : c \in LoadFiles} \cup {NoFile} :
          fs' = [fs EXCEPT ![path] = new]
    /\ fs' # fs
    /\ UNCHANGED <<hash_order, path, preproc, contents_split, contents_pp, nLines, hash,
                   file_pp_defs, pp_defs, include_list, include_dirs, pp_skips,
                   pp_defines, include_paths, ast, called, raised, nEdits, ret, thr>>

InitLoad == \E main \in LoadFiles : InitFile(main, FALSE, <<>>, {}, <<>>, DefaultOrder)

NextLoad == load_from_disk \/ ApplyChange \/ WriteDisk

SpecLoad == InitLoad /\ [][NextLoad]_vars

----------------------------------------------------------------------------
(* Several parses sharing the caller's include_dirs object; include cycles *)

OtherName == "other.F90"
L_incself == <<"#include", "main.F90">>
CycleAlphabet == {L_incself, L_include, L_x}
CycleFiles == SeqsUpTo(CycleAlphabet, MaxIncLines)

\* a disk whose include file, next to the main file, includes the main file
DiskCycle(main) ==
    [p \in {MainPath} \cup {JoinPath(d, IncName) : d \in Dirs} |->
        IF p = MainPath THEN [exists |-> TRUE, lines |-> main]
        ELSE IF p.dir = dirname(MainPath) THEN [exists |-> TRUE, lines |-> <<L_incself>>]
        ELSE NoFile]

\* process_file on another file object, in another directory, with the same
\* pp_defs and include_dirs objects
ParseOther ==
    /\ \E d \in Dirs \ {dirname(path)} :
          LET r == process_file(FileObj(JoinPath(d, OtherName), TRUE, <<L_x>>, <<L_x>>, 1),
                                pp_defs, include_dirs)
          IN /\ include_dirs' = r.include_dirs
             /\ raised' = r.raised
    /\ called' = "other"
    /\ ret' = NoRet
    /\ UNCHANGED <<fs, hash_order, path, preproc, contents_split, contents_pp, nLines, hash,
                   file_pp_defs, pp_defs, include_list, pp_skips, pp_defines, include_paths,
                   ast, nEdits, thr>>

InitCycle == \E main \in CycleFiles :
               InitObject(DiskCycle(main), TRUE, <<>>, <<>>, DefaultOrder)

InitShared == InitInc \/ InitCycle

NextShared == load_from_disk \/ Preprocess \/ ProcessFile \/ ParseOther

SpecShared == InitShared /\ [][NextShared]_vars

----------------------------------------------------------------------------
(* Two preprocess_file calls on two threads, sharing pp_defs and include_dirs. *)
(* A thread switch can occur between any two steps below; the iteration over   *)
(* the shared set is one step per element.                                     *)

Threads == {1, 2}
ParAlphabet == {L_include, L_x}
ParFiles == SeqsUpTo(ParAlphabet, MaxParLines)
ThreadDir(t) == IF t = 1 THEN "d0" ELSE "d1"

\* the frame of a preprocess_file call about to run line 1192
Frame(t, lines) ==
    [path |-> JoinPath(ThreadDir(t), "main.F90"), lines |-> lines, pc |-> "add", i |-> 0,
     st |-> PPInit(pp_defs, {}), it_size |-> 0, it_pos |-> 0]

\* the loop state of thread t, seeing the shared set
ThreadSt(t) == [thr[t].st EXCEPT !.include_dirs = include_dirs]

\* the thread moves to the next line, or out of the function when st raised
Advance(t, st) ==
    [thr EXCEPT ![t].st = st, ![t].i = @ + 1, ![t].pc = IF st.raised THEN "done" ELSE "loop"]

\* include_dirs.add(os.path.abspath(os.path.dirname(file_path)))
TAdd(t) ==
    /\ thr[t].pc = "add"
    /\ include_dirs' = include_dirs \cup {dirname(thr[t].path)}
    /\ thr' = [thr EXCEPT ![t].pc = "loop"]

\* one pass of the loop body for a line that does not search include_dirs
TLine(t) ==
    /\ thr[t].pc = "loop" /\ thr[t].i < Len(thr[t].lines)
    /\ ~IsIncludeStep(thr[t].st, thr[t].lines[thr[t].i + 1])
    /\ thr' = Advance(t, PPStep(ThreadSt(t), thr[t].i, thr[t].lines[thr[t].i + 1], 0))
    /\ UNCHANGED include_dirs

\* for include_dir in include_dirs: the iterator is created
TIterStart(t) ==
    /\ thr[t].pc = "loop" /\ thr[t].i < Len(thr[t].lines)
    /\ IsIncludeStep(thr[t].st, thr[t].lines[thr[t].i + 1]) = TRUE
    /\ thr' = [thr EXCEPT ![t].pc = "iter", ![t].it_size = Cardinality(include_dirs),
                          ![t].it_pos = 0]
    /\ UNCHANGED include_dirs

\* the iterator's next element: RuntimeError when the set changed size,
\* the end of the loop, a directory without the file, or the file found
TIterNext(t) ==
    /\ thr[t].pc = "iter"
    /\ LET line == thr[t].lines[thr[t].i + 1]
           order == SetOrder(include_dirs)
           include_path == JoinPath(order[thr[t].it_pos + 1], IncludeFilename(line))
       IN IF Cardinality(include_dirs) # thr[t].it_size
          THEN /\ thr' = Advance(t, [ThreadSt(t) EXCEPT !.raised = TRUE])
               /\ UNCHANGED include_dirs
          ELSE IF thr[t].it_pos >= thr[t].it_size
          THEN /\ thr' = Advance(t, Emit(ThreadSt(t), line))
               /\ UNCHANGED include_dirs
          ELSE IF ~isfile(include_path)
          THEN /\ thr' = [thr EXCEPT ![t].it_pos = @ + 1]
               /\ UNCHANGED include_dirs
          ELSE LET st1 == IncludeAt(ThreadSt(t), include_path, 0)
               IN /\ thr' = Advance(t, Emit(st1, line))
                  /\ include_dirs' = st1.include_dirs

\* return output_file, pp_skips, pp_defines, defs_tmp
TReturn(t) ==
    /\ thr[t].pc = "loop" /\ thr[t].i >= Len(thr[t].lines)
    /\ thr' = [thr EXCEPT ![t].pc = "done"]
    /\ UNCHANGED include_dirs

InitPar ==
    \E f1 \in ParFiles, f2 \in ParFiles, S \in SUBSET Dirs, order \in Perms(Dirs),
       list \in {<<>>, <<"d2">>} :
        /\ fs = Disk(<<>>, S)
        /\ hash_order = order
        /\ path = MainPath
        /\ preproc = TRUE
        /\ contents_split = <<>>
        /\ contents_pp = <<>>
        /\ nLines = 0
        /\ hash = NoHash
        /\ file_pp_defs = <<>>
        /\ pp_defs = <<>>
        /\ include_list = list
        /\ include_dirs = Range(list)
        /\ pp_skips = <<>>
        /\ pp_defines = <<>>
        /\ include_paths = <<>>
        /\ ast = NewAst
        /\ called = "init"
        /\ raised = FALSE
        /\ nEdits = 0
        /\ ret = NoRet
        /\ thr = <<Frame(1, f1), Frame(2, f2)>>

\* what the threads' steps leave alone
objectVars == <<fs, hash_order, path, preproc, contents_split, contents_pp, nLines, hash,
                file_pp_defs, pp_defs, include_list, pp_skips, pp_defines, include_paths,
                ast, called, raised, nEdits, ret>>

TAddAny == (\E t \in Threads : TAdd(t)) /\ UNCHANGED objectVars
TLineAny == (\E t \in Threads : TLine(t)) /\ UNCHANGED objectVars
TIterStartAny == (\E t \in Threads : TIterStart(t)) /\ UNCHANGED objectVars
TIterNextAny == (\E t \in Threads : TIterNext(t)) /\ UNCHANGED objectVars
TReturnAny == (\E t \in Threads : TReturn(t)) /\ UNCHANGED objectVars

NextPar == TAddAny \/ TLineAny \/ TIterStartAny \/ TIterNextAny \/ TReturnAny

SpecPar == InitPar /\ [][NextPar]_vars

----------------------------------------------------------------------------
(* Reference notions used to state the properties *)

\* a preprocess or process_file call has returned normally on a preprocessed file
Preprocessed ==
    /\ called = "preprocess" \/ (called = "process_file" /\ preproc)
    /\ ~raised

\* the working definitions just before line k (1-based) of the file is read
PrefixDefs(lines, k) ==
    preprocess_file(SubSeq(lines, 1, k - 1), path, pp_defs, include_dirs, 0).defs_tmp

\* the value the code computes for the condition of the directive on line k
CondValue(lines, k) ==
    LET line == lines[k]
        name == IF Len(line) > 1 THEN line[2] ELSE ""
    IN IF Head(line) = "#ifdef" THEN InDefs(PrefixDefs(lines, k), name)
       ELSE IF Head(line) = "#ifndef" THEN ~InDefs(PrefixDefs(lines, k), name)
       ELSE eval_pp_if(From(line, 1), PrefixDefs(lines, k))

RECURSIVE RefFrames(_, _)
\* the conditionals open after lines 1..k, innermost last; of each: the kind of
\* its current branch, that branch's own condition, whether the branch is the
\* selected one, and whether some branch of the chain has been selected
RefFrames(lines, k) ==
    IF k = 0 THEN <<>>
    ELSE LET before == RefFrames(lines, k - 1)
             line == lines[k]
             w == IF Len(line) > 0 THEN Head(line) ELSE ""
         IN IF w \in IfWords
            THEN LET c == CondValue(lines, k)
                 IN Append(before, [kind |-> "if", cond |-> c, sel |-> c, taken |-> c])
            ELSE IF before = <<>> THEN before
            ELSE IF w = "#elif"
                 THEN LET c == CondValue(lines, k)
                          top == Last(before)
                      IN SetTop(before, [kind |-> "elif", cond |-> c,
                                         sel |-> c /\ ~top.taken, taken |-> top.taken \/ c])
            ELSE IF w = "#else"
                 THEN SetTop(before, [kind |-> "else", cond |-> TRUE,
                                      sel |-> ~Last(before).taken, taken |-> TRUE])
            ELSE IF w = "#endif" THEN Pop(before)
            ELSE before

\* line k lies in a branch whose own condition evaluated false
OwnFalse(lines, k) ==
    LET fr == RefFrames(lines, k - 1)
    IN fr # <<>> /\ Last(fr).kind \in {"if", "elif"} /\ ~Last(fr).cond

\* line k lies in an included region: every enclosing conditional is in its selected branch
RegionIncluded(lines, k) ==
    LET fr == RefFrames(lines, k - 1)
    IN \A j \in 1..Len(fr) : fr[j].sel

InSkips(k) == \E j \in 1..Len(pp_skips) : pp_skips[j][1] <= k /\ k <= pp_skips[j][2]

RECURSIVE ContLine(_, _)
\* line k is a continuation line of a multi-line #define
ContLine(lines, k) ==
    /\ k > 1
    /\ lines[k - 1] # <<>>
    /\ Last(lines[k - 1]) = "\\"
    /\ (Head(lines[k - 1]) = "#define" \/ ContLine(lines, k - 1))

NoContinuations(lines) == \A k \in 1..Len(lines) : lines[k] = <<>> \/ Last(lines[k]) # "\\"

\* names, descriptors and docs of the variables of an AST, without line numbers
VarsOf(a) ==
    [k \in 1..Len(a.variable_list) |->
        [name |-> a.variable_list[k].name, desc |-> a.variable_list[k].desc,
         doc |-> a.variable_list[k].doc]]
VarNames(a) == {a.variable_list[k].name : k \in 1..Len(a.variable_list)}

----------------------------------------------------------------------------
(* C1: for every finite sequence of lines, preprocess followed by            *)
(* process_file returns an AST without raising (a line that cannot be        *)
(* handled is skipped), including a file ending in a trailing "&" and a      *)
(* multi-line #define followed by an empty line.                             *)
C1_NeverRaises == called \in {"preprocess", "process_file"} => ~raised

(* C2: after any sequence of load_from_disk, apply_change and preprocess     *)
(* calls, len(contents_pp) = len(contents_split) = nLines.                   *)
C2_LengthsAgree == Len(contents_pp) = Len(contents_split) /\ Len(contents_split) = nLines

C2_Witness ==
    /\ called = "preprocess"
    /\ ~raised
    /\ nEdits > 0
    /\ nLines > MaxEditLines
    /\ \E k \in 1..nLines : PP_DEF_match(contents_split[k])
    /\ \E k \in 1..nLines : contents_pp[k] # contents_split[k]

(* C3: in a file whose #if/#ifdef/#ifndef are each closed by an #endif,      *)
(* every non-directive line in a branch whose own condition evaluated false  *)
(* lies inside some range of skips after preprocessing.                      *)
C3_FalseBranchSkipped ==
    (Preprocessed /\ Balanced(contents_split) /\ NoContinuations(contents_split)) =>
        \A k \in 1..nLines :
            (~PP_ANY_match(contents_split[k]) /\ OwnFalse(contents_split, k)) => InSkips(k)

(* C4: a #define or #undef line is honoured (recorded in the defines list    *)
(* and applied to the working definitions) if and only if it lies in an      *)
(* included region, i.e. in no inactive branch of any enclosing conditional. *)
C4_DefineIffIncluded ==
    (Preprocessed /\ NoContinuations(contents_split)) =>
        \A k \in 1..nLines :
            PP_DEF_match(contents_split[k]) =>
                ((k \in Range(pp_defines)) <=> RegionIncluded(contents_split, k))

SetMax(S) == CHOOSE x \in S : \A y \in S : y <= x
SetMin(S) == CHOOSE x \in S : \A y \in S : x <= y

\* honoured "#undef name" / "#define name" lines of the file
UndefLines(lines, name) ==
    {k \in Range(pp_defines) : Head(lines[k]) = "#undef" /\ lines[k][2] = name}
DefineLines(lines, name) ==
    {k \in Range(pp_defines) : Head(lines[k]) = "#define" /\ lines[k][2] = name}
LastUndef(lines, name) == SetMax({0} \cup UndefLines(lines, name))
DefinesSince(lines, name) == {k \in DefineLines(lines, name) : k > LastUndef(lines, name)}

RECURSIVE ContText(_, _)
\* the text the lines from j on add to a multi-line macro
ContText(lines, j) ==
    IF j > Len(lines) THEN <<>>
    ELSE IF Last(lines[j]) # "\\" THEN lines[j]
    ELSE Slice(lines[j], 0, Len(lines[j]) - 1) \o ContText(lines, j + 1)

\* the replacement text the #define on line k states
DefineText(lines, k) ==
    IF Len(lines[k]) = 2 THEN <<"True">>
    ELSE IF Last(lines[k]) = "\\"
         THEN Slice(lines[k], 2, Len(lines[k]) - 1) \o ContText(lines, k + 1)
         ELSE From(lines[k], 2)

SeedKept(lines, name) == LastUndef(lines, name) = 0 /\ InDefs(pp_defs, name)
\* NAME is bound by the earliest definition since its most recent #undef
RefDefined(lines, name) == SeedKept(lines, name) \/ DefinesSince(lines, name) # {}
RefValue(lines, name) ==
    IF SeedKept(lines, name) THEN DefValue(pp_defs, name)
    ELSE DefineText(lines, SetMin(DefinesSince(lines, name)))

(* C5: the value bound to NAME is that of the earliest definition (seed or   *)
(* #define) made since the most recent #undef NAME; a later #define of a     *)
(* defined name changes nothing and #undef of a defined name removes it.     *)
C5_FirstDefinitionWins ==
    (Preprocessed /\ include_paths = <<>>) =>
        \A name \in MacroNames :
            /\ InDefs(file_pp_defs, name) <=> RefDefined(contents_split, name)
            /\ InDefs(file_pp_defs, name) =>
                  DefValue(file_pp_defs, name) = RefValue(contents_split, name)

C5_Witness ==
    /\ Preprocessed
    /\ include_paths = <<>>
    /\ Cardinality(UndefLines(contents_split, "A")) > 0
    /\ Cardinality(DefinesSince(contents_split, "A")) > 1
    /\ InDefs(file_pp_defs, "A")
    /\ \E k \in DefinesSince(contents_split, "A") :
          DefineText(contents_split, k) # DefValue(file_pp_defs, "A")

C6File == <<L_ifdefFOO, L_x, L_else, L_y, L_endif>>
C6Case ==
    /\ called = "process_file"
    /\ preproc
    /\ contents_split = C6File
    /\ ~InDefs(pp_defs, "FOO")

(* C6, as stated: the five-line #ifdef FOO / x / #else / y / #endif input    *)
(* with FOO undefined yields variable y and not x, and skips contains [2,2]. *)
C6_SkipsTwoTwo ==
    C6Case => /\ ~raised
              /\ "y" \in VarNames(ast)
              /\ "x" \notin VarNames(ast)
              /\ \E k \in 1..Len(pp_skips) : pp_skips[k] = <<2, 2>>

(* C6, amended: the same input yields variable y and not x, and skips is     *)
(* exactly the one range [1,3], from the #ifdef line to the #else line.      *)
C6_SkipsOneThree ==
    C6Case => /\ ~raised
              /\ "y" \in VarNames(ast)
              /\ "x" \notin VarNames(ast)
              /\ pp_skips = << <<1, 3>> >>

C6_Witness == C6Case /\ ~raised /\ Len(ast.variable_list) = 1

\* the file with lines i..j wrapped in "#if cond" ... "#endif", and with them deleted
Wrap(lines, i, j, cond) ==
    SubSeq(lines, 1, i - 1) \o << <<"#if", cond>> >> \o SubSeq(lines, i, j)
    \o << L_endif >> \o SubSeq(lines, j + 1, Len(lines))
Delete(lines, i, j) == SubSeq(lines, 1, i - 1) \o SubSeq(lines, j + 1, Len(lines))
\* the outcome of parsing a file with preprocessing enabled
Parse(lines) ==
    process_file(FileObj(path, TRUE, lines, lines, Len(lines)), pp_defs, include_dirs)

\* no line carries a trailing "!<" doc comment
NoTrailingDoc(lines) == \A k \in 1..Len(lines) : Find(lines[k], {"!<"}) <= 0

(* C7: wrapping a block of N consecutive non-directive lines in #if 0 ...    *)
(* #endif gives the AST (modulo line numbers) of the file with the lines     *)
(* deleted; wrapping it in #if 1 ... #endif gives the AST of the file.       *)
(* Stated for files without multi-line macros and without trailing "!<".     *)
C7_GuardEquivalence ==
    (called = "process_file" /\ preproc /\ ~raised /\ NoContinuations(contents_split)
     /\ NoTrailingDoc(contents_split)) =>
        \A i \in 1..nLines : \A j \in i..nLines :
            LET lines == contents_split
                w0 == Parse(Wrap(lines, i, j, "0"))
                w1 == Parse(Wrap(lines, i, j, "1"))
                del == Parse(Delete(lines, i, j))
            IN ((\A k \in i..j : ~PP_ANY_match(lines[k]))
                /\ ~w0.raised /\ ~w1.raised /\ ~del.raised) =>
                  /\ VarsOf(w0.ast) = VarsOf(del.ast)
                  /\ VarsOf(w1.ast) = VarsOf(ast)

(* C8: after preprocess, contents_pp[i] is the empty string for every line   *)
(* i inside an inactive conditional branch.                                  *)
C8_InactiveLinesEmpty ==
    (Preprocessed /\ NoContinuations(contents_split)) =>
        \A k \in 1..nLines :
            (~PP_ANY_match(contents_split[k]) /\ ~RegionIncluded(contents_split, k)) =>
                contents_pp[k] = <<>>

RECURSIVE SinglePass(_, _)
\* every macro name of the original line replaced by its value, nothing else
SinglePass(line, defs) ==
    IF line = <<>> THEN <<>>
    ELSE (IF InDefs(defs, Head(line)) THEN DefValue(defs, Head(line)) ELSE <<Head(line)>>)
         \o SinglePass(Tail(line), defs)

(* C9: macro substitution is single-pass: the output line is the line with   *)
(* each macro name of the original line replaced by its value; text brought  *)
(* in by a replacement is not replaced again.                                *)
C9_SinglePass ==
    (Preprocessed /\ NoContinuations(contents_split)) =>
        \A k \in 1..nLines :
            ~PP_ANY_match(contents_split[k]) =>
                contents_pp[k] = SinglePass(contents_split[k], PrefixDefs(contents_split, k))

\* the directory the claim names for an include file
ExpectedDir(name) ==
    IF isfile(JoinPath(dirname(path), name)) THEN dirname(path)
    ELSE include_list[SetMin({k \in 1..Len(include_list) :
                                  isfile(JoinPath(include_list[k], name))})]

(* C10: an include file present in several candidate directories is taken    *)
(* from the including file's own directory if present there, otherwise from  *)
(* the earliest directory of the caller's include_dirs order.                *)
C10_FirstMatchWins ==
    Preprocessed =>
        \A j \in 1..Len(include_paths) :
            include_paths[j].dir = ExpectedDir(include_paths[j].name)

\* process_file on the current contents with the include_dirs the caller listed
FirstRun ==
    process_file([CurFile EXCEPT !.raised = FALSE, !.ast = NewAst], pp_defs, Range(include_list))

(* C11: a run of process_file returns the definitions map, skips, defines    *)
(* and AST that a run on the same contents with the caller's pp_defs and     *)
(* include_dirs returns, also after parses of other files that were given    *)
(* the same include_dirs object.                                             *)
C11_Deterministic ==
    (called = "process_file" /\ ~raised) =>
        /\ ~FirstRun.raised
        /\ file_pp_defs = FirstRun.pp_defs
        /\ pp_skips = FirstRun.pp_skips
        /\ pp_defines = FirstRun.pp_defines
        /\ ast = FirstRun.ast

(* C12: no step of a parse changes the caller's pp_defs map or the caller's  *)
(* include_dirs collection.                                                  *)
C12_InputsReadOnly == [][pp_defs' = pp_defs /\ include_dirs' = include_dirs]_vars

\* the result of thread t's parse when it runs alone on the caller's include_dirs
Alone(t) == preprocess_file(thr[t].lines, thr[t].path, pp_defs, Range(include_list), 0)

\* the change of an apply_change step that returned
Edited(r) == r.op = "apply_change"

\* the lines of the text T: one per line of T, one more empty line when T ends
\* with a newline, a single empty line when T is empty
LinesOfText(T) ==
    IF T = <<>> THEN << <<>> >>
    ELSE IF Last(T) = "\n" THEN Append(splitlines(T), <<>>) ELSE splitlines(T)

\* 0 <= start.line <= end.line < nLines, the columns within the affected lines
InRange(lines, ch) ==
    /\ ch.has_range
    /\ 0 <= ch.start_line /\ ch.start_line <= ch.end_line /\ ch.end_line < Len(lines)
    /\ ch.start_col <= Len(lines[ch.start_line + 1])
    /\ ch.end_col <= Len(lines[ch.end_line + 1])
    /\ ch.start_line = ch.end_line => ch.start_col <= ch.end_col

\* lines[0:start.line] ++ M ++ lines[end.line+1:], M being the lines of the text
\* with the prefix of the first affected line and the suffix of the last one
Spliced(lines, ch) ==
    LET M == LinesOfText(ch.text)
        pre == Slice(lines[ch.start_line + 1], 0, ch.start_col)
        suf == From(lines[ch.end_line + 1], ch.end_col)
        M1 == [M EXCEPT ![1] = pre \o @]
        M2 == [M1 EXCEPT ![Len(M)] = @ \o suf]
    IN Slice(lines, 0, ch.start_line) \o M2 \o From(lines, ch.end_line + 1)

(* C15: a range edit with 0 <= start.line <= end.line < nLines and columns   *)
(* within the affected lines leaves contents_split equal to the lines before *)
(* the range, the lines of the text glued to the prefix of the first and the *)
(* suffix of the last affected line, and the lines after the range, on the   *)
(* single-line fast path as on the general path.                             *)
C15_SpliceResult ==
    [][(Edited(ret') /\ ret' # ret /\ InRange(contents_split, ret'.change))
           => contents_split' = Spliced(contents_split, ret'.change)]_vars

\* an empty range at (line, char) with empty text, 0 <= line <= nLines
EmptyEdit(lines, ch) ==
    /\ ch.has_range /\ ch.text = <<>>
    /\ ch.start_line = ch.end_line /\ ch.start_col = ch.end_col
    /\ ch.start_line <= Len(lines)
    /\ ch.start_line < Len(lines) => ch.start_col <= Len(lines[ch.start_line + 1])
    /\ ch.start_line = Len(lines) => ch.start_col = 0

(* C16: apply_change with an empty range and empty text, at any position up  *)
(* to and including line nLines, leaves contents_split unchanged and leaves  *)
(* the hash equal to the hash of the unchanged contents.                     *)
C16_EmptyEditIsIdentity ==
    [][(Edited(ret') /\ ret' # ret /\ EmptyEdit(contents_split, ret'.change))
           => (contents_split' = contents_split /\ hash' = md5(contents_split))]_vars

\* a step of load_from_disk
LoadStep == called' = "load_from_disk" /\ fs' = fs

\* contents_split, contents_pp, nLines and hash are as before the step
Untouched ==
    /\ contents_split' = contents_split /\ contents_pp' = contents_pp
    /\ nLines' = nLines /\ hash' = hash

\* contents_split, contents_pp, nLines and hash are those of the disk contents
Rebuilt ==
    /\ contents_split' = fs[path].lines /\ contents_pp' = fs[path].lines
    /\ nLines' = Len(fs[path].lines) /\ hash' = md5(fs[path].lines)

(* C17: load_from_disk returns (no error, changed = false) and touches no    *)
(* field exactly when the MD5 of the disk contents equals the stored hash;   *)
(* it returns an error and touches no field when the file cannot be read;    *)
(* otherwise it returns changed = true with the fields rebuilt.  The first   *)
(* successful load after an apply_change returns changed = true.             *)
C17_LoadContract ==
    [][LoadStep =>
          /\ IF ~isfile(path)
             THEN ret'.err # "None" /\ Untouched
             ELSE IF md5(fs[path].lines) = hash
             THEN ret' = LoadRet("None", "False") /\ Untouched
             ELSE ret' = LoadRet("None", "True") /\ Rebuilt
          /\ (called = "apply_change" /\ isfile(path)) => ret'.changed = "True"]_vars

\* a load that follows an edit of contents equal to the disk's found them changed
C17_Witness ==
    /\ called = "load_from_disk" /\ ret = LoadRet("None", "True")
    /\ nEdits > 0 /\ nLines > 0
    /\ contents_split = fs[path].lines

\* the parsing pass after the first k lines of a file without directives
ParseUpTo(lines, k) == ParseLoop(ParseInit, SubSeq(lines, 1, k), k, <<>>, <<>>)

\* an END statement with a word: `end <word> [name]`, alone on its line
EndWordLine(line) ==
    Len(line) >= 2 /\ Head(line) = "end" /\ Find(line, {";"} \cup CommentToks) < 0

(* C21: an `end <word> [name]` line read while a scope is open closes the    *)
(* current scope with that line as its ending line; when the word does not   *)
(* match the kind of the scope, the scope is still closed and end_errors     *)
(* holds the pair (end line, defining line of the scope).                    *)
C21_EndClosesCurrent ==
    (called = "process_file" /\ ~raised) =>
        \A k \in 1..Len(contents_pp) :
            LET open == ParseUpTo(contents_pp, k - 1).ast.current_scope
            IN (EndWordLine(contents_pp[k]) /\ open # 0) =>
                  /\ ast.scope_list[open].eline = k
                  /\ contents_pp[k][2] # ast.scope_list[open].kind =>
                        \E e \in 1..Len(ast.end_errors) :
                            ast.end_errors[e] = <<k, ast.scope_list[open].sline>>

\* a line that carries a statement label, alone on its line
LabelledLine(line) == HasLabel(line) /\ Find(line, {";"} \cup CommentToks) < 0

\* the scopes open after the parse state ps, innermost first
RECURSIVE OpenChain(_, _)
OpenChain(a, c) == IF c = 0 THEN <<>> ELSE <<c>> \o OpenChain(a, a.scope_list[c].parent)

\* the scopes a labelled line may close: going outward from the current scope
\* with the label stack, one DO per label equal to the line's label, stopping
\* at the first scope that is not a DO or label that differs
RECURSIVE MayClose(_, _, _, _)
MayClose(a, chain, stack, label) ==
    IF chain # <<>> /\ stack # <<>> /\ a.scope_list[Head(chain)].kind = "do"
       /\ Last(stack) = label
    THEN {Head(chain)} \cup MayClose(a, Tail(chain), SubSeq(stack, 1, Len(stack) - 1), label)
    ELSE {}

\* the scopes open before a step and closed after it
ClosedBy(before, after) ==
    {c \in 1..Len(before.ast.scope_list) :
        ~before.ast.scope_list[c].closed /\ after.ast.scope_list[c].closed}

(* C22: on a line that carries a statement label, scopes are closed one per  *)
(* label popped from the DO-label stack, and each close happens only if the  *)
(* current scope is then a DO and the top of the stack is the line's label:  *)
(* a labelled line never closes a scope that is not a DO.                    *)
C22_LabelClosesOnlyDo ==
    \A k \in 1..Len(contents_split) :
        LET before == ParseUpTo(contents_split, k - 1)
            after == ParseUpTo(contents_split, k)
        IN LabelledLine(contents_split[k]) =>
              /\ ClosedBy(before, after) =
                    MayClose(before.ast, OpenChain(before.ast, before.ast.current_scope),
                             before.block_id_stack, Head(contents_split[k]))
              /\ Len(before.block_id_stack) - Len(after.block_id_stack)
                    = Cardinality(ClosedBy(before, after))

\* the labelled DO scopes still open in the parse state: those opened by a
\* DO statement with a label and not closed
OpenLabelledDo(lines, ps) ==
    {c \in 1..Len(ps.ast.scope_list) :
        /\ ~ps.ast.scope_list[c].closed
        /\ ps.ast.scope_list[c].kind = "do"
        /\ read_block_def(lines[ps.ast.scope_list[c].sline]).label # ""}

(* C28: at every point of a parse each label on the DO-label stack belongs   *)
(* to a DO scope that is still open: the stack is never longer than the      *)
(* number of open labelled DO scopes, so the label of a DO closed by         *)
(* `end do` does not stay on the stack.                                      *)
C28_LabelsOfOpenDo ==
    \A k \in 0..Len(contents_split) :
        Len(ParseUpTo(contents_split, k).block_id_stack)
            <= Cardinality(OpenLabelledDo(contents_split, ParseUpTo(contents_split, k)))

\* a declaration of one name: its descriptor and its name
OneDeclarator(line) == read_var_def(line).match /\ Len(read_var_def(line).var_names) = 1

\* the earlier records the merge logic may unite with the new declaration:
\* for EXTERNAL X the records of X not yet external, for a typed X the
\* EXTERNAL-only records of X
Candidates(a, desc, name) ==
    IF desc = "EXTERNAL"
    THEN {i \in 1..Len(a.variable_list) :
             a.variable_list[i].name = name /\ ~a.variable_list[i].is_external}
    ELSE {i \in 1..Len(a.variable_list) :
             /\ a.variable_list[i].name = name /\ a.variable_list[i].desc = "EXTERNAL"
             /\ \E e \in 1..Len(a.external_objs) : a.external_objs[e] = i}

\* record i became the single external-typed entity and nothing else changed
MergedInto(before, after, i, desc) ==
    /\ Len(after.variable_list) = Len(before.variable_list)
    /\ after.variable_list[i].is_external
    /\ after.variable_list[i].desc = (IF desc = "EXTERNAL" THEN before.variable_list[i].desc
                                      ELSE desc)
    /\ \E e \in 1..Len(after.external_objs) : after.external_objs[e] = i
    /\ \A j \in 1..Len(before.variable_list) :
           j # i => after.variable_list[j] = before.variable_list[j]

\* the new declaration was added as a record of its own, no earlier record changed
AddedAlone(before, after) ==
    /\ Len(after.variable_list) = Len(before.variable_list) + 1
    /\ SubSeq(after.variable_list, 1, Len(before.variable_list)) = before.variable_list
    /\ SubSeq(after.external_objs, 1, Len(before.external_objs)) = before.external_objs
    /\ \A e \in (Len(before.external_objs) + 1)..Len(after.external_objs) :
           after.external_objs[e] = Len(after.variable_list)

(* C23: when a declaration of X meets the EXTERNAL merge logic, exactly one  *)
(* candidate among the earlier records makes that record the single          *)
(* external-typed entity and adds no record; zero or several candidates make *)
(* the new declaration an independent record and change no earlier record.   *)
C23_ExactlyOneMerges ==
    \A k \in 1..Len(contents_split) :
        OneDeclarator(contents_split[k]) =>
            LET before == ParseUpTo(contents_split, k - 1).ast
                after == ParseUpTo(contents_split, k).ast
                desc == read_var_def(contents_split[k]).type_word
                cand == Candidates(before, desc, read_var_def(contents_split[k]).var_names[1])
            IN IF Cardinality(cand) = 1
               THEN \A i \in cand : MergedInto(before, after, i, desc)
               ELSE AddedAlone(before, after)

\* the declarator of the statement that declares name
OwnDeclarator(line, name) ==
    CHOOSE t \in Range(read_var_def(line).var_names) :
        IF HasParen(t) THEN Declarator(t).name = name ELSE t = name

\* the descriptor of one variable: the type spec and its own "*(len)" suffix
OwnDesc(line, name) ==
    LET t == OwnDeclarator(line, name)
    IN IF HasParen(t) /\ Declarator(t).star
       THEN read_var_def(line).type_word \o "*(" \o Declarator(t).paren \o ")"
       ELSE read_var_def(line).type_word

\* the attributes of one variable: the keyword list and its own "(dims)" suffix
OwnKeywords(line, name) ==
    LET t == OwnDeclarator(line, name)
    IN IF HasParen(t) /\ ~Declarator(t).star
       THEN Append(read_var_def(line).keywords, "DIMENSION(" \o Declarator(t).paren \o ")")
       ELSE read_var_def(line).keywords

(* C29: in a declaration with several declarators the descriptor and the     *)
(* attributes recorded for each variable depend only on the type spec, the   *)
(* keyword list and that variable's own declarator: a "*(len)" or "(dims)"   *)
(* suffix on one declarator leaves the other variables unchanged.            *)
C29_OwnDeclaratorOnly ==
    (called = "process_file" /\ ~raised) =>
        \A i \in 1..Len(ast.variable_list) :
            LET v == ast.variable_list[i]
            IN Head(contents_pp[v.sline]) = "character" =>
                  /\ v.desc = OwnDesc(contents_pp[v.sline], v.name)
                  /\ v.keywords = OwnKeywords(contents_pp[v.sline], v.name)

\* every conditional is closed by one #endif, has at most one #else and no #elif
\* after it, and no multi-line macro hides a directive
WellFormedChains(lines) ==
    /\ Balanced(lines) /\ NoContinuations(lines)
    /\ \A k \in 1..Len(lines) :
           (lines[k] # <<>> /\ Head(lines[k]) \in {"#elif", "#else"}) =>
               Last(RefFrames(lines, k - 1)).kind # "else"

\* the preprocessor's conditional stack after lines 1..k of the file
PrefixStack(lines, k) ==
    preprocess_file(SubSeq(lines, 1, k), path, pp_defs, include_dirs, 0).pp_stack

(* C26: for every file in which each #if / #ifdef / #ifndef is closed by     *)
(* exactly one #endif, the conditional stack is empty after the last line,   *)
(* and after each #endif its depth is the number of conditionals still open. *)
(* Stated for files without multi-line macros.                               *)
C26_StackBalanced ==
    (Preprocessed /\ WellFormedChains(contents_split)) =>
        /\ PrefixStack(contents_split, Len(contents_split)) = <<>>
        /\ \A k \in 1..Len(contents_split) :
               (contents_split[k] # <<>> /\ Head(contents_split[k]) = "#endif") =>
                   Len(PrefixStack(contents_split, k)) = Len(RefFrames(contents_split, k))

\* line k is a line of code: neither empty nor a preprocessor directive
CodeLine(line) ==
    line # <<>> /\ ~PP_REGEX_match(line) /\ ~PP_DEF_match(line) /\ ~PP_INCLUDE_match(line)

\* line k lies in a branch that comes after the selected branch of its chain
AfterSelected(lines, k) ==
    LET fr == RefFrames(lines, k - 1)
    IN \E j \in 1..Len(fr) : fr[j].taken /\ ~fr[j].sel

(* C27: in every #if / #elif / #else / #endif chain the lines of at most one *)
(* branch lie outside the skip ranges: once a branch has been selected, the  *)
(* lines of every later #elif branch and of the #else branch are skipped.    *)
C27_AtMostOneBranch ==
    (Preprocessed /\ WellFormedChains(contents_split)) =>
        \A k \in 1..Len(contents_split) :
            (CodeLine(contents_split[k]) /\ AfterSelected(contents_split, k)) => InSkips(k)

\* a declaration line that carries a trailing "!<" doc comment
TrailingDocLine(line) ==
    /\ read_var_def(NoComment(line)).match
    /\ PostComment(line) # <<>> /\ Head(PostComment(line)) = "!<"

(* C25: for every declaration line that carries a trailing "!<" doc comment, *)
(* when process_file returns the doc text is attached to the declaration     *)
(* emitted from that line, also when the line is the last code line of the   *)
(* file or only blank and comment lines follow it.                           *)
C25_TrailingDocAttached ==
    (called = "process_file" /\ ~raised) =>
        \A i \in 1..Len(ast.variable_list) :
            LET v == ast.variable_list[i]
            IN TrailingDocLine(contents_pp[v.sline]) =>
                  v.doc # NoDoc /\ Head(v.doc) = Tail(PostComment(contents_pp[v.sline]))

(* C18: in the AST process_file returns, every closed scope s has           *)
(* s.eline >= s.sline and every child scope c of s has                       *)
(* s.sline < c.sline <= s.eline, also for statements separated by ";" on one *)
(* line and for generic bindings, which open and close a scope on one line.  *)
C18_ScopeLines ==
    (called = "process_file" /\ ~raised) =>
        \A i \in 1..Len(ast.scope_list) :
            LET c == ast.scope_list[i]
            IN /\ c.closed => c.eline >= c.sline
               /\ c.parent # 0 =>
                     LET s == ast.scope_list[c.parent]
                     IN s.sline < c.sline /\ (s.closed => c.sline <= s.eline)

\* line k (0-based) ends with "&" outside comments: it requests continuation
Continues(lines, k) ==
    LET code == NoComm(lines[k + 1]) IN Len(code) > 0 /\ Last(code) = "&"

\* index of the first line of the continuation chain that line N belongs to
ChainStart(lines, N) ==
    SetMin({j \in 0..N : \A k \in j..(N - 1) : Continues(lines, k)})

\* the content of a chain line: its text before the trailing "&"
ChainContent(line) == Slice(BlankCont(NoComm(line)), 0, Len(NoComm(line)) - 1)

\* the content of every earlier line of the chain of line N, in file order
ChainBefore(lines, N) ==
    [k \in 1..(N - ChainStart(lines, N)) |-> ChainContent(lines[ChainStart(lines, N) + k])]

\* the whole logical line that physical line N belongs to, up to line N
LogicalLine(lines, N) == Flatten(ChainBefore(lines, N)) \o BlankCont(lines[N + 1])

\* the first-match decision list on the physical line curr of the logical line full
Decision(curr, full) ==
    IF FREE_COMMENT_match(curr) THEN FALSE
    ELSE IF HasLabel(full) THEN TRUE
    ELSE IF Find(full, {";"}) >= 0 THEN TRUE
    ELSE IF END_IMPLICIT_CONTAINS_match(NoComm(full)) THEN TRUE
    ELSE IF NON_DEF_match(NoComm(full)) THEN FALSE
    ELSE IF def_tests_match(NoComm(full)) THEN TRUE
    ELSE FALSE

\* a single-line edit: start.line == end.line inside the file, text of one line
SingleLineEdit(lines, ch) ==
    /\ ch.has_range /\ ch.start_line = ch.end_line /\ ch.start_line < Len(lines)
    /\ \A k \in 1..Len(ch.text) : ch.text[k] \notin LineBreaks

\* an edit of another shape: no range, append at the end, several lines
OtherEdit(lines, ch) ==
    \/ ~ch.has_range
    \/ ch.start_line = Len(lines)
    \/ ch.start_line < ch.end_line /\ ch.end_line < Len(lines)
    \/ ch.start_line < Len(lines) /\ ch.end_line < Len(lines) /\ Find(ch.text, {"\n"}) >= 0

(* C19: for a single-line edit apply_change returns the outcome of the       *)
(* decision list (comment -> no; label -> yes; ";" -> yes; END / IMPLICIT /  *)
(* CONTAINS -> yes; non-definition -> no; a declaration recognizer matches   *)
(* -> yes; otherwise no) on the logical line of the edited line; every other *)
(* edit shape returns reparse.                                               *)
C19_ReparseDecision ==
    [][(Edited(ret') /\ ret' # ret) =>
          /\ SingleLineEdit(contents_split, ret'.change) =>
                ret'.reparse = Decision(BlankCont(contents_split'[ret'.change.start_line + 1]),
                                        LogicalLine(contents_split', ret'.change.start_line))
          /\ OtherEdit(contents_split, ret'.change) => ret'.reparse = TRUE]_vars

(* C20: for every line N >= 1 that continues the line before it,             *)
(* get_code_line(N, backward=True) returns in pre_lines the content of every *)
(* earlier line of the continuation chain, back to its first line, also when *)
(* that first line is line 0 of the file.                                    *)
C20_BackwardChain ==
    \A N \in 1..(Len(contents_split) - 1) :
        Continues(contents_split, N - 1) =>
            get_code_line_back(contents_split, N).pre_lines = ChainBefore(contents_split, N)

\* the number of ";" of a line
SemiCount(line) == Cardinality({i \in 1..Len(line) : line[i] = ";"})

RECURSIVE LinesWork(_, _, _)
\* the lines from index k on still to read, each with the pieces it may queue
LinesWork(pp, k, n) ==
    IF k >= n THEN 0 ELSE 1 + SemiCount(pp[k + 1]) + LinesWork(pp, k + 1, n)

\* what the loop still has to do: the queued pieces and the lines not yet read
PendingWork(ps, pp, n) == Len(ps.semi_split) + LinesWork(pp, ps.next_line_ind, n)

\* one iteration from ps to ps2 takes one queued piece and queues none, or takes
\* the next line of the file; the next-line index stays after the line in hand
StepProgress(ps, ps2, pp, n) ==
    /\ IF Len(ps.semi_split) > 0
       THEN ps2.semi_split = Tail(ps.semi_split) /\ ps2.next_line_ind >= ps.next_line_ind
       ELSE ps2.next_line_ind > ps.next_line_ind
    /\ ps2.next_line_ind > ps2.line_ind
    /\ ps2.raised \/ PendingWork(ps2, pp, n) < PendingWork(ps, pp, n)

RECURSIVE LoopProgress(_, _, _, _, _, _)
\* the loop started in ps ends within fuel iterations, each of them a StepProgress
LoopProgress(ps, pp, n, skips, defines, fuel) ==
    IF ps.raised \/ ~(ps.next_line_ind < n \/ Len(ps.semi_split) > 0) THEN TRUE
    ELSE IF fuel = 0 THEN FALSE
    ELSE /\ StepProgress(ps, ParseStep(ps, pp, n, skips, defines), pp, n)
         /\ LoopProgress(ParseStep(ps, pp, n, skips, defines), pp, n, skips, defines, fuel - 1)

RECURSIVE LoopTrace(_, _, _, _, _)
\* the states of the loop at the start of each iteration, and its last state
LoopTrace(ps, pp, n, skips, defines) ==
    IF ps.raised \/ ~(ps.next_line_ind < n \/ Len(ps.semi_split) > 0) THEN <<ps>>
    ELSE <<ps>> \o LoopTrace(ParseStep(ps, pp, n, skips, defines), pp, n, skips, defines)

(* C30: process_file terminates on every finite file without #include: each  *)
(* iteration of the main loop takes one queued piece of a ";"-split line     *)
(* without queueing another, or moves the next-line index strictly forward;  *)
(* the doc-comment look-ahead leaves that index after the line in hand; the  *)
(* loop ends within one iteration per line and per ";" of the file.          *)
C30_LoopTerminates ==
    (called = "process_file" /\ include_paths = <<>> /\ Len(contents_pp) = nLines) =>
        LoopProgress(ParseInit, contents_pp, nLines, pp_skips, pp_defines,
                     PendingWork(ParseInit, contents_pp, nLines))

\* a parse that returned after it took a piece that is a doc comment with a doc
\* comment line after it, and a line split in three
C30_Witness ==
    /\ called = "process_file" /\ ~raised /\ include_paths = <<>>
    /\ Len(contents_pp) = nLines
    /\ LET tr == LoopTrace(ParseInit, contents_pp, nLines, pp_skips, pp_defines)
       IN /\ \E i \in 1..Len(tr) : Len(tr[i].semi_split) = 2
          /\ \E i \in 1..(Len(tr) - 1) :
                /\ Len(tr[i].semi_split) > 0
                /\ FREE_DOC_match(Head(tr[i].semi_split))
                /\ tr[i + 1].next_line_ind > tr[i].next_line_ind

(* C13: each of two parses interleaved on two threads with the same pp_defs  *)
(* and include_dirs objects returns what it returns when run alone.          *)
C13_ThreadsIndependent ==
    \A t \in DOMAIN thr :
        thr[t].pc = "done" =>
            /\ thr[t].st.raised = Alone(t).raised
            /\ thr[t].st.output_file = Alone(t).output_file
            /\ thr[t].st.pp_skips = Alone(t).pp_skips
            /\ thr[t].st.pp_defines = Alone(t).pp_defines
            /\ thr[t].st.defs_tmp = Alone(t).defs_tmp

(* C14: a file already on the include stack is not preprocessed again: the   *)
(* file being preprocessed is never itself resolved as an include.           *)
C14_NoRevisit ==
    Preprocessed => \A j \in 1..Len(include_paths) : include_paths[j] # path

====
